---- MODULE Spec2Model ----
(***************************************************************************)
(* Inquiry lifecycle and product counters of the industrial marketplace    *)
(* backend (models/Inquiry.js, routes/inquiries.js, routes/products.js).   *)
(*                                                                         *)
(* Every handler is an async function: the code between two awaits runs    *)
(* atomically, and each awaited store operation (findOne, create, save)    *)
(* takes effect at one instant of its own.  An action of this module is    *)
(* one store operation together with the synchronous code that follows it  *)
(* up to the next await.  The bag pending holds, for every handler in       *)
(* flight, the store operation it awaits with the local values it will     *)
(* write; last is the outcome most recently returned to a caller.  now is  *)
(* the latest reading of the clock: a handler that takes a timestamp reads *)
(* a time that is not earlier.                                             *)
(*                                                                         *)
(* The second part is the request pipeline of server.js with the           *)
(* middleware of middleware/security.js: sessions and anti-forgery tokens, *)
(* the input and output sanitizers and the rate limiters.  A request runs  *)
(* through the middleware of the application, of its mount and of its      *)
(* route in one step (Serve); its response ends in a second step (Finish), *)
(* where the session is stored and the limiter settles its count.          *)
(***************************************************************************)
EXTENDS Integers, Sequences, FiniteSets, Bags, TLC

-----------------------------------------------------------------------------
(* Bounds of the model *)

\* handlers in flight at once
MaxReq == 2
\* inquiries the create handler may insert (SpecCreate)
MaxInquiries == 3
\* inquiries followed through their lifecycle (SpecInquiry)
MaxTracked == 1
\* inquiries followed through their lifecycle under a moving clock (SpecTimed)
MaxTimed == 1
MaxTime == 1
\* stock of the products that inquiries are made on
MaxStock == 1
\* stock levels and quantities of the stock methods (SpecStock)
MaxLevel == 2
MaxViews == 3

-----------------------------------------------------------------------------
(* Fixed data: accounts and products *)

Users == {"s1", "b1"}

\* p1 and p2 exist; p3 is a well-formed id that matches no product
ProductIds == {"p1", "p2", "p3"}

Times == 0..MaxTime

NoResponse == [message |-> "none", price |-> 0, deliveryTime |-> "none",
               respondedAt |-> -1]

\* response payloads a seller may send (prices in cents, at most two decimals,
\* which the rounding of the pre-save hook leaves as they are); the last one
\* is over the price limit
Payloads == {
    [message |-> "quoteA", price |-> 19999, deliveryTime |-> "3 days"],
    [message |-> "quoteB", price |-> 0, deliveryTime |-> "1 week"],
    [message |-> "quoteC", price |-> 100000001, deliveryTime |-> "1 week"] }

\* the payloads sent under a moving clock
TimedPayloads == {d \in Payloads : d.message # "quoteB"}

\* message of a create request, by what the two length checks see
\*   short  : fewer than 10 characters
\*   padded : 10 or more characters, fewer than 10 once trimmed
\*   ok     : 10..500 characters once trimmed
MessageKinds == {"short", "padded", "ok"}

Statuses == {"pending", "responded", "accepted", "rejected", "completed", "cancelled"}

VARIABLES products, inquiries, pending, last, now

\* the request pipeline (server.js, middleware/security.js): the session
\* store, the tokens already accepted, the counters of the rate limiters,
\* the requests being served, the response most recently sent, and a text
\* under the sanitizers
VARIABLES sessions, used, hits, reqs, resp, text

\* the User collection (userSchema), read by auth and written by the
\* registration
VARIABLES accounts

\* process.env, as far as the program reads it
VARIABLES env

pipeVars == <<sessions, used, hits, reqs, resp, text, accounts, env>>

vars == <<products, inquiries, pending, last, now,
          sessions, used, hits, reqs, resp, text, accounts, env>>

-----------------------------------------------------------------------------
(* Handlers in flight *)

\* an awaited store operation: op is the handler, id the document, and the
\* other fields the local values the operation writes
Cont == [op |-> "none", id |-> "none", user |-> "none", seller |-> "none",
         qty |-> 0, msg |-> "none", status |-> "none",
         response |-> NoResponse, n |-> 0,
         email |-> "none", password |-> "none"]

InFlight == BagCardinality(pending)

Await(c) == pending' = pending (+) SetToBag({c})

Resume(c) == pending' = pending (-) SetToBag({c})

\* the outcome returned to the caller of handler op
Return(op, res) == last' = [op |-> op, res |-> res]

\* HTTP status of an outcome
HttpStatus(res) ==
    CASE res = "Created" -> 201
      [] res = "OK" -> 200
      [] res = "ProductNotFound" -> 404
      [] res = "InquiryNotFound" -> 404
      [] res = "Forbidden" -> 403
      [] res = "ServerError" -> 500
      [] OTHER -> 400

-----------------------------------------------------------------------------
(* routes/inquiries.js : POST /api/inquiries *)

\* createInquiryValidation + handleValidationErrors
createInquiryValidation(q, m) == q >= 1 /\ m # "short"

\* a validator that reads the stock of the product the path refers to
quantityValidatorPopulated(productRef, q) ==
    ~ (products[productRef].stock < q)

\* schema validator of Inquiry.quantity: the product path holds an id, not a
\* populated document, so this.product.stock is undefined and the
\* comparison undefined < quantity is false
quantityValidator(productRef, q) ==
    LET stockOfRef == "undefined"
    IN  ~ (stockOfRef # "undefined" /\ stockOfRef < q)

\* schema validation run by Inquiry.create (message is trimmed first)
inquirySchemaValid(productRef, q, m) ==
    /\ q >= 1
    /\ quantityValidator(productRef, q)
    /\ m = "ok"

\* the checks of the handler with the stock looked at before isActive
createOutcomeStockFirst(u, p, q, m) ==
    IF ~ createInquiryValidation(q, m) THEN "ValidationError"
    ELSE IF p \in DOMAIN products /\ products[p].stock < q THEN "InsufficientStock"
    ELSE IF ~ (p \in DOMAIN products /\ products[p].isActive) THEN "ProductNotFound"
    ELSE IF products[p].seller = u THEN "SelfInquiryForbidden"
    ELSE "none"

\* the checks of the handler without the comparison of seller and caller
createOutcomeNoSelfCheck(u, p, q, m) ==
    IF ~ createInquiryValidation(q, m) THEN "ValidationError"
    ELSE IF ~ (p \in DOMAIN products /\ products[p].isActive) THEN "ProductNotFound"
    ELSE IF products[p].stock < q THEN "InsufficientStock"
    ELSE "none"

\* the checks of the handler without the stock check
createOutcomeNoStockCheck(u, p, q, m) ==
    IF ~ createInquiryValidation(q, m) THEN "ValidationError"
    ELSE IF ~ (p \in DOMAIN products /\ products[p].isActive) THEN "ProductNotFound"
    ELSE IF products[p].seller = u THEN "SelfInquiryForbidden"
    ELSE "none"

\* the checks of the handler after Product.findOne({_id, isActive: true})
createOutcome(u, p, q, m) ==
    IF ~ createInquiryValidation(q, m) THEN "ValidationError"
    ELSE IF ~ (p \in DOMAIN products /\ products[p].isActive) THEN "ProductNotFound"
    ELSE IF products[p].stock < q THEN "InsufficientStock"
    ELSE IF products[p].seller = u THEN "SelfInquiryForbidden"
    ELSE "none"

\* Validation, Product.findOne and the checks that follow it, up to the call
\* of Inquiry.create
CreateInquiry(u, p, q, m) ==
    /\ IF createOutcome(u, p, q, m) # "none"
       THEN /\ Return("create", createOutcome(u, p, q, m))
            /\ UNCHANGED pending
       ELSE /\ Await([Cont EXCEPT !.op = "create", !.id = p, !.user = u,
                                  !.seller = products[p].seller,
                                  !.qty = q, !.msg = m])
            /\ UNCHANGED last
    /\ UNCHANGED <<products, inquiries, now>>

\* a document whose seller is taken from the caller
newInquirySellerFromCaller(c, t) ==
    [product |-> c.id,
     buyer |-> c.user,
     seller |-> c.user,
     quantity |-> c.qty,
     status |-> "pending",
     response |-> NoResponse,
     createdAt |-> t,
     history |-> <<"pending">>]

\* the document Inquiry.create inserts (status defaults to pending);
\* history records the statuses the stored document has had, in order
newInquiry(c, t) ==
    [product |-> c.id,
     buyer |-> c.user,
     seller |-> c.seller,
     quantity |-> c.qty,
     status |-> "pending",
     response |-> NoResponse,
     createdAt |-> t,
     history |-> <<"pending">>]

\* total quantity of the pending inquiries on product p
RECURSIVE PendingQuantity(_, _)
PendingQuantity(seq, p) ==
    IF seq = << >> THEN 0
    ELSE (IF Head(seq).product = p /\ Head(seq).status = "pending"
          THEN Head(seq).quantity ELSE 0) + PendingQuantity(Tail(seq), p)

\* an insert that reserves the quantity on the product
CreatePersistReserving(c, t) ==
    /\ c.op = "create"
    /\ BagIn(c, pending)
    /\ Resume(c)
    /\ IF ~ inquirySchemaValid(c.id, c.qty, c.msg)
       THEN /\ Return("create", "ServerError")
            /\ UNCHANGED <<inquiries, now, products>>
       ELSE /\ t >= now
            /\ inquiries' = Append(inquiries, newInquiry(c, t))
            /\ products' = [products EXCEPT ![c.id].stock = @ - c.qty]
            /\ now' = t
            /\ Return("create", "Created")

\* an insert that checks the stock again, atomically with the insert
CreatePersistRechecking(c, t) ==
    /\ c.op = "create"
    /\ BagIn(c, pending)
    /\ Resume(c)
    /\ IF ~ inquirySchemaValid(c.id, c.qty, c.msg)
       THEN /\ Return("create", "ServerError")
            /\ UNCHANGED <<inquiries, now>>
       ELSE IF PendingQuantity(inquiries, c.id) + c.qty > products[c.id].stock
       THEN /\ Return("create", "InsufficientStock")
            /\ UNCHANGED <<inquiries, now>>
       ELSE /\ t >= now
            /\ inquiries' = Append(inquiries, newInquiry(c, t))
            /\ now' = t
            /\ Return("create", "Created")
    /\ UNCHANGED products

\* Inquiry.create: schema validation, then the insert; createdAt is stamped
\* with the clock reading t
CreatePersist(c, t) ==
    /\ c.op = "create"
    /\ BagIn(c, pending)
    /\ Resume(c)
    /\ IF ~ inquirySchemaValid(c.id, c.qty, c.msg)
       THEN /\ Return("create", "ServerError")
            /\ UNCHANGED <<inquiries, now>>
       ELSE /\ t >= now
            /\ inquiries' = Append(inquiries, newInquiry(c, t))
            /\ now' = t
            /\ Return("create", "Created")
    /\ UNCHANGED products

-----------------------------------------------------------------------------
(* routes/inquiries.js : PATCH /api/inquiries/:id/respond *)

\* respondInquiryValidation + handleValidationErrors
respondInquiryValidation(d) == d.price >= 0 /\ d.price <= 100000000

\* the response sub-record both respond paths build
\* a response stamped with a time before the reading of the clock
newResponseBackdated(d, t) ==
    [message |-> d.message, price |-> d.price,
     deliveryTime |-> d.deliveryTime, respondedAt |-> t - 1]

newResponse(d, t) ==
    [message |-> d.message, price |-> d.price,
     deliveryTime |-> d.deliveryTime, respondedAt |-> t]

\* a lookup that finds the inquiry for its buyer as well
respondOutcomeAnyParty(u, i, d) ==
    IF ~ respondInquiryValidation(d) THEN "ValidationError"
    ELSE IF ~ (i \in DOMAIN inquiries
                 /\ u \in {inquiries[i].seller, inquiries[i].buyer})
    THEN "InquiryNotFound"
    ELSE IF inquiries[i].status # "pending" THEN "AlreadyResponded"
    ELSE "none"

\* a status check that refuses terminal inquiries only
respondOutcomeNotTerminal(u, i, d) ==
    IF ~ respondInquiryValidation(d) THEN "ValidationError"
    ELSE IF ~ (i \in DOMAIN inquiries /\ inquiries[i].seller = u) THEN "InquiryNotFound"
    ELSE IF inquiries[i].status \in {"completed", "cancelled"} THEN "AlreadyResponded"
    ELSE "none"

\* the checks of the handler after Inquiry.findOne({_id, seller})
respondOutcome(u, i, d) ==
    IF ~ respondInquiryValidation(d) THEN "ValidationError"
    ELSE IF ~ (i \in DOMAIN inquiries /\ inquiries[i].seller = u) THEN "InquiryNotFound"
    ELSE IF inquiries[i].status # "pending" THEN "AlreadyResponded"
    ELSE "none"

\* Validation, Inquiry.findOne, the status check and the assignments to the
\* loaded document, up to the call of save()
Respond(u, i, d, t) ==
    /\ IF respondOutcome(u, i, d) # "none"
       THEN /\ Return("respond", respondOutcome(u, i, d))
            /\ UNCHANGED <<pending, now>>
       ELSE /\ t >= now
            /\ Await([Cont EXCEPT !.op = "respond", !.id = i,
                                  !.status = "responded",
                                  !.response = newResponse(d, t)])
            /\ now' = t
            /\ UNCHANGED last
    /\ UNCHANGED <<products, inquiries>>

-----------------------------------------------------------------------------
(* models/Inquiry.js : instance methods, called on the document that       *)
(* Inquiry.findById(i) has loaded                                          *)

\* inquirySchema.methods.respondToInquiry, up to the call of save()
respondToInquiry(i, d, t) ==
    /\ i \in DOMAIN inquiries
    /\ IF inquiries[i].status # "pending"
       THEN /\ Return("respondToInquiry", "AlreadyResponded")
            /\ UNCHANGED <<pending, now>>
       ELSE /\ t >= now
            /\ Await([Cont EXCEPT !.op = "respondToInquiry", !.id = i,
                                  !.status = "responded",
                                  !.response = newResponse(d, t)])
            /\ now' = t
            /\ UNCHANGED last
    /\ UNCHANGED <<products, inquiries>>

\* a table that leaves a rejected inquiry without a way on
validTransitionsDeadEnd ==
    [pending |-> {"responded", "cancelled"},
     responded |-> {"accepted", "rejected", "completed"},
     accepted |-> {"completed", "cancelled"},
     rejected |-> {},
     completed |-> {},
     cancelled |-> {}]

\* a table that lets a rejected inquiry be accepted after all
validTransitionsLoose ==
    [pending |-> {"responded", "cancelled"},
     responded |-> {"accepted", "rejected", "completed"},
     accepted |-> {"completed", "cancelled"},
     rejected |-> {"cancelled", "accepted"},
     completed |-> {},
     cancelled |-> {}]

validTransitions ==
    [pending |-> {"responded", "cancelled"},
     responded |-> {"accepted", "rejected", "completed"},
     accepted |-> {"completed", "cancelled"},
     rejected |-> {"cancelled"},
     completed |-> {},
     cancelled |-> {}]

\* inquirySchema.methods.updateStatus, up to the call of save()
updateStatus(i, newStatus) ==
    /\ i \in DOMAIN inquiries
    /\ IF newStatus \notin validTransitions[inquiries[i].status]
       THEN /\ Return("updateStatus", "InvalidTransition")
            /\ UNCHANGED pending
       ELSE /\ Await([Cont EXCEPT !.op = "updateStatus", !.id = i,
                                  !.status = newStatus])
            /\ UNCHANGED last
    /\ UNCHANGED <<products, inquiries, now>>

\* virtual canRespond of an inquiry document
canRespond(doc) == doc.status = "pending"

\* a virtual that holds for the two terminal statuses only
isCompletedTerminalOnly(doc) == doc.status \in {"completed", "cancelled"}

\* virtual isCompleted of an inquiry document
isCompleted(doc) ==
    doc.status \in {"accepted", "rejected", "completed", "cancelled"}

\* the paths a handler has modified on its inquiry document
modifiedPaths(op) ==
    IF op = "updateStatus" THEN {"status"} ELSE {"status", "response"}

\* save() of an inquiry document: the validators of the loaded paths run,
\* then the modified paths are written
InquirySave(c) ==
    /\ c.op \in {"respond", "respondToInquiry", "updateStatus"}
    /\ BagIn(c, pending)
    /\ Resume(c)
    /\ IF ~ quantityValidator(inquiries[c.id].product, inquiries[c.id].quantity)
       THEN /\ Return(c.op, "ServerError")
            /\ UNCHANGED inquiries
       ELSE /\ inquiries' = [inquiries EXCEPT ![c.id] =
                  [@ EXCEPT !.status = IF "status" \in modifiedPaths(c.op)
                                       THEN c.status ELSE @,
                            !.response = IF "response" \in modifiedPaths(c.op)
                                         THEN c.response ELSE @,
                            !.history = IF c.status # inquiries[c.id].status
                                        THEN Append(@, c.status) ELSE @]]
            /\ Return(c.op, "OK")
    /\ UNCHANGED <<products, now>>

-----------------------------------------------------------------------------
(* routes/inquiries.js : GET /api/inquiries/:id *)

\* ids are numbers: 1, 2, ... are well-formed ids, those up to
\* Len(inquiries) of inquiries that exist; 0 stands for an id that is not 24
\* hexadecimal digits
MalformedId == 0

\* the authenticated callers: the accounts that trade, and one that is
\* neither buyer nor seller of any inquiry
Callers == Users \cup {"x1"}

\* a handler that does not look at the caller
getOutcomeAnyCaller(u, i) ==
    IF i = MalformedId THEN "InvalidId"
    ELSE IF i \notin DOMAIN inquiries THEN "InquiryNotFound"
    ELSE "OK"

\* the id check, Inquiry.findById and the check of the caller
getOutcome(u, i) ==
    IF i = MalformedId THEN "InvalidId"
    ELSE IF i \notin DOMAIN inquiries THEN "InquiryNotFound"
    ELSE IF inquiries[i].buyer # u /\ inquiries[i].seller # u THEN "Forbidden"
    ELSE "OK"

\* the whole handler: it reads the inquiry once and answers
GetInquiry(u, i) ==
    /\ Return("get", getOutcome(u, i))
    /\ UNCHANGED <<products, inquiries, pending, now>>

-----------------------------------------------------------------------------
(* routes/products.js : GET /api/products/:id, and                         *)
(* models/Product.js : incrementViews                                      *)

\* Product.findById(p).where({isActive: true}), then incrementViews up to
\* its call of save()
ViewProduct(p) ==
    /\ IF ~ (p \in DOMAIN products /\ products[p].isActive)
       THEN /\ Return("view", "ProductNotFound")
            /\ UNCHANGED pending
       ELSE /\ Await([Cont EXCEPT !.op = "view", !.id = p,
                                  !.n = products[p].views + 1])
            /\ UNCHANGED last
    /\ UNCHANGED <<products, inquiries, now>>

\* save({validateBeforeSave: false}) of incrementViews: views is written
ViewSave(c) ==
    /\ c.op = "view"
    /\ BagIn(c, pending)
    /\ Resume(c)
    /\ products' = [products EXCEPT ![c.id].views = c.n]
    /\ Return("view", "OK")
    /\ UNCHANGED <<inquiries, now>>

-----------------------------------------------------------------------------
(* models/Product.js : decreaseStock, increaseStock, called on the         *)
(* document that Product.findById(p) has loaded                            *)

\* decreaseStock without its check of the stock
decreaseStockUnchecked(p, quantity) ==
    /\ p \in DOMAIN products
    /\ Await([Cont EXCEPT !.op = "decreaseStock", !.id = p,
                          !.n = products[p].stock - quantity])
    /\ UNCHANGED <<products, inquiries, last, now>>

\* productSchema.methods.decreaseStock, up to its call of save()
decreaseStock(p, quantity) ==
    /\ p \in DOMAIN products
    /\ IF products[p].stock < quantity
       THEN /\ Return("decreaseStock", "StockError")
            /\ UNCHANGED pending
       ELSE /\ Await([Cont EXCEPT !.op = "decreaseStock", !.id = p,
                                  !.n = products[p].stock - quantity])
            /\ UNCHANGED last
    /\ UNCHANGED <<products, inquiries, now>>

\* productSchema.methods.increaseStock, up to its call of save()
increaseStock(p, quantity) ==
    /\ p \in DOMAIN products
    /\ Await([Cont EXCEPT !.op = "increaseStock", !.id = p,
                          !.n = products[p].stock + quantity])
    /\ UNCHANGED <<products, inquiries, last, now>>

\* schema validation of Product.stock (min: 0)
stockValid(n) == n >= 0

\* save() of the stock methods: validation, then stock is written (the
\* pre-save hook floors stock, which is a whole number here)
ProductSave(c) ==
    /\ c.op \in {"decreaseStock", "increaseStock"}
    /\ BagIn(c, pending)
    /\ Resume(c)
    /\ IF ~ stockValid(c.n)
       THEN /\ Return(c.op, "ValidationError")
            /\ UNCHANGED products
       ELSE /\ products' = [products EXCEPT ![c.id].stock = c.n]
            /\ Return(c.op, "OK")
    /\ UNCHANGED <<inquiries, now>>

-----------------------------------------------------------------------------
(* The request pipeline: server.js and middleware/security.js              *)
(*                                                                         *)
(* A request is served in two steps.  Serve is the arrival: the session is *)
(* read from the store and the middleware stack of the request runs, in    *)
(* the order the application mounts it, up to the middleware that answers. *)
(* Finish is the end of the response: the session is written back when the *)
(* request changed it, the limiter that skips successful requests takes    *)
(* its hits back, and the response reaches the client.                     *)

\* sessions the store may hold
MaxSessions == 2
\* random components a token may be made with
MaxSalts == 2
\* requests served at once (SpecSession)
MaxOpen == 2
\* hits a limiter may hold in the specifications that are not about it
MaxBurst == 1
\* hits of the second client (SpecRate)
MaxOther == 1
\* length of the texts given to the sanitizers (SpecText)
MaxLen == 4

\* values tokens.secretSync() may return
Secrets == {"secretA", "secretB"}

Salts == 1..MaxSalts

\* tokens.create(secret): a random salt and a digest of salt and secret
tokenize(secret, salt) == [salt |-> salt, mac |-> <<salt, secret>>]

\* a header or body field that is absent or empty
NoToken == [salt |-> 0, mac |-> <<0, "absent">>]

\* a token that tokens.create did not make
Garbage == [salt |-> 0, mac |-> <<0, "garbage">>]

TokenValues ==
    {NoToken, Garbage} \cup {tokenize(k, x) : k \in Secrets, x \in Salts}

\* a verification that accepts a token made under any secret
verifyAnySecret(secret, token) ==
    /\ secret \in Secrets
    /\ token.salt \in Salts
    /\ \E k \in Secrets : token = tokenize(k, token.salt)

\* tokens.verify(secret, token): the digest is recomputed from the salt of
\* the token and compared
verify(secret, token) ==
    /\ secret \in Secrets
    /\ token.salt \in Salts
    /\ token = tokenize(secret, token.salt)

\* token.length
tokenLength(token) == IF token.salt \in Salts THEN 36 ELSE 7

\* a validation that accepts a token once
reqValidateCsrfOnce(secret, token) ==
    token # NoToken /\ token \notin used /\ verify(secret, token)

\* req.validateCsrf(token), attached by csrfMiddleware
reqValidateCsrf(secret, token) == token # NoToken /\ verify(secret, token)

\* a session that express-session has just generated
newSession == [csrfSecret |-> "none"]

\* a middleware that makes a new secret on every request
csrfMiddlewareAlways(session, k) ==
    [session EXCEPT !.csrfSecret = k]

\* csrfMiddleware: the secret is generated when the session has none; k is
\* the value tokens.secretSync() returns
csrfMiddleware(session, k) ==
    IF session.csrfSecret = "none"
    THEN [session EXCEPT !.csrfSecret = k]
    ELSE session

-----------------------------------------------------------------------------
(* Paths: a path is the sequence of its segments; "id" stands for a route  *)
(* parameter                                                               *)

Clients == {"c1", "c2"}

\* the requests: method and URL
Endpoints == {
    [method |-> "GET",   url |-> <<"api", "csrf-token">>],
    [method |-> "POST",  url |-> <<"auth", "register">>],
    [method |-> "POST",  url |-> <<"auth", "login">>],
    [method |-> "POST",  url |-> <<"auth", "logout">>],
    [method |-> "POST",  url |-> <<"auth", "auth", "login">>],
    [method |-> "GET",   url |-> <<"api", "products">>],
    [method |-> "POST",  url |-> <<"api", "products">>],
    [method |-> "PATCH", url |-> <<"api", "users", "profile">>],
    [method |-> "POST",  url |-> <<"api", "inquiries">>],
    [method |-> "PATCH", url |-> <<"api", "inquiries", "id", "respond">>] }

\* app.use(path, ...) matches the URLs under path
Mounted(path, url) ==
    Len(url) >= Len(path) /\ SubSeq(url, 1, Len(path)) = path

\* req.path inside a mounted middleware or router: the mount path is
\* stripped from the URL
reqPath(path, url) == SubSeq(url, Len(path) + 1, Len(url))

\* server.js: the middleware every request goes through, in order
appStack == <<"sessionConfig", "helmetConfig", "corsConfig", "xssProtection",
              "sanitizeInput", "csrfMiddleware", "bodyParser">>

\* server.js: the mounted routers with the middleware in front of each
mounts == {
    [path |-> <<"auth">>, stack |-> <<"authLimiter", "validateCsrf">>],
    [path |-> <<"api", "products">>, stack |-> <<"auth", "apiLimiter">>],
    [path |-> <<"api", "users">>,
        stack |-> <<"auth", "apiLimiter", "validateCsrf">>],
    [path |-> <<"api", "inquiries">>, stack |-> <<"auth", "apiLimiter">>] }

\* the routes of the routers, by mount path: method, path under the mount,
\* and the middleware of the route; "handler" is the field validation of
\* the route followed by its handler
routes == {
    [mount |-> <<"auth">>, method |-> "POST", path |-> <<"register">>,
        stack |-> <<"authLimiter", "validateCsrf", "handler">>],
    [mount |-> <<"auth">>, method |-> "POST", path |-> <<"login">>,
        stack |-> <<"authLimiter", "validateCsrf", "handler">>],
    [mount |-> <<"auth">>, method |-> "POST", path |-> <<"logout">>,
        stack |-> <<"validateCsrf", "handler">>],
    [mount |-> <<"api", "products">>, method |-> "GET", path |-> << >>,
        stack |-> <<"apiLimiter", "handler">>],
    [mount |-> <<"api", "products">>, method |-> "POST", path |-> << >>,
        stack |-> <<"apiLimiter", "handler">>],
    [mount |-> <<"api", "users">>, method |-> "PATCH", path |-> <<"profile">>,
        stack |-> <<"auth", "handler">>],
    [mount |-> <<"api", "inquiries">>, method |-> "POST", path |-> << >>,
        stack |-> <<"apiLimiter", "handler">>],
    [mount |-> <<"api", "inquiries">>, method |-> "PATCH",
        path |-> <<"id", "respond">>,
        stack |-> <<"apiLimiter", "handler">> ],
    [mount |-> <<"api", "inquiries">>, method |-> "GET", path |-> <<"id">>,
        stack |-> <<"apiLimiter", "handler">>],
    [mount |-> <<"api", "products">>, method |-> "GET", path |-> <<"id">>,
        stack |-> <<"apiLimiter", "handler">>] }

-----------------------------------------------------------------------------
(* The sanitizers.  A text is the sequence of its characters.              *)

\* the characters of the texts that are given to the sanitizers
Chars == {"<", ">", "&", "l", "t", ";", " "}

\* the characters a tag name may begin with
Letters == {"l", "t", "g", "a", "m", "p"}

\* a filter that decodes no character reference
entitiesNone == {}

\* the character references the HTML parser decodes
entities == {
    [name |-> <<"l", "t">>, char |-> "<"],
    [name |-> <<"g", "t">>, char |-> ">"],
    [name |-> <<"a", "m", "p">>, char |-> "&"] }

\* the first position from i on that holds a character of cs, or 0
IndexFrom(s, i, cs) ==
    LET found == {j \in i..Len(s) : s[j] \in cs}
    IN  IF found = {} THEN 0
        ELSE CHOOSE j \in found : \A k \in found : j <= k

\* w occurs in s at position i
StartsAt(s, i, w) ==
    i + Len(w) - 1 <= Len(s) /\ SubSeq(s, i, i + Len(w) - 1) = w

\* sanitize-html writes text with &, < and > escaped
escapeHtml(c) ==
    CASE c = "&" -> <<"&", "a", "m", "p", ";">>
      [] c = "<" -> <<"&", "l", "t", ";">>
      [] c = ">" -> <<"&", "g", "t", ";">>
      [] OTHER -> <<c>>

\* the textFilter option of sanitizeValue: text.replace(/[<>]/g, '')
textFilter(t) == SelectSeq(t, LAMBDA c : c \notin {"<", ">"})

\* sanitizeHtml(value, {allowedTags: [], allowedAttributes: {}, textFilter})
\* from position i: a tag is dropped up to its closing >, an unfinished tag
\* is dropped with the rest, a character reference is decoded, and text is
\* written escaped and then filtered
RECURSIVE sanitizeHtml(_, _)
sanitizeHtml(s, i) ==
    IF i > Len(s) THEN << >>
    ELSE IF s[i] = "<" /\ i < Len(s) /\ s[i + 1] \in Letters
    THEN LET j == IndexFrom(s, i + 1, {">"})
         IN  IF j = 0 THEN << >> ELSE sanitizeHtml(s, j + 1)
    ELSE IF s[i] = "&" /\ \E e \in entities : StartsAt(s, i + 1, e.name)
    THEN LET e == CHOOSE x \in entities : StartsAt(s, i + 1, x.name)
             n == i + 1 + Len(e.name)
             after == IF n <= Len(s) /\ s[n] = ";" THEN n + 1 ELSE n
         IN  textFilter(escapeHtml(e.char)) \o sanitizeHtml(s, after)
    ELSE textFilter(escapeHtml(s[i])) \o sanitizeHtml(s, i + 1)

\* String.prototype.trim
trim(s) ==
    LET kept == {i \in 1..Len(s) : s[i] # " "}
    IN  IF kept = {} THEN << >>
        ELSE SubSeq(s, CHOOSE i \in kept : \A k \in kept : i <= k,
                       CHOOSE i \in kept : \A k \in kept : i >= k)

\* sanitizeValue of sanitizeInput, on a string
sanitizeValue(value) == trim(sanitizeHtml(value, 1))

\* the escapeHtml of the xss filter: < and > only
xssEscape(c) ==
    CASE c = "<" -> <<"&", "l", "t", ";">>
      [] c = ">" -> <<"&", "g", "t", ";">>
      [] OTHER -> <<c>>

\* xss(data, {whiteList: {}, stripIgnoreTag: true}) from position i:
\* whatever stands between a < and the next > is a tag and is removed; a <
\* that meets another < first is escaped text; a < with no > after it is
\* removed with the rest by the builds that close a tag at the end of the
\* input (closesAtEnd) and escaped by the others
RECURSIVE xss(_, _, _)
xss(s, i, closesAtEnd) ==
    IF i > Len(s) THEN << >>
    ELSE IF s[i] = "<"
    THEN LET j == IndexFrom(s, i + 1, {"<", ">"})
         IN  IF j = 0
             THEN IF closesAtEnd /\ i < Len(s) THEN << >>
                  ELSE xssEscape("<") \o SubSeq(s, i + 1, Len(s))
             ELSE IF s[j] = ">" THEN xss(s, j + 1, closesAtEnd)
             ELSE xssEscape("<") \o SubSeq(s, i + 1, j - 1)
                      \o xss(s, j, closesAtEnd)
    ELSE xssEscape(s[i]) \o xss(s, i + 1, closesAtEnd)

-----------------------------------------------------------------------------
(* The middleware *)

\* max of authLimiter and of apiLimiter
authMax == 10

apiMax == 100

limit == [auth |-> authMax, api |-> apiMax]

\* no response has been sent; cookie is the session cookie the client
\* holds once the response has ended, 0 when the store has no such session
NoResp == [status |-> 0, by |-> "none", body |-> [message |-> "none"],
           token |-> NoToken, cookie |-> 0,
           seen |-> [parsed |-> FALSE, body |-> << >>, query |-> << >>],
           reused |-> FALSE]

\* res.status(status).json(body) by middleware by
Send(ctx, status, by, body) ==
    [ctx EXCEPT !.out = [NoResp EXCEPT !.status = status, !.by = by,
                                       !.body = body]]

\* validateCsrf: the paths that are not validated
skipPaths == { <<"auth", "register">>, <<"auth", "login">>,
               <<"api", "health">>, <<"api", "csrf-token">>,
               <<"api", "debug", "session">> }

\* validateCsrf: req.path.startsWith('/auth/')
startsWithAuth(path) == Len(path) >= 2 /\ path[1] = "auth"

\* a lookup that prefers the body field to the headers
csrfTokenOfBodyFirst(r) ==
    IF r.bcsrf # NoToken THEN r.bcsrf
    ELSE IF r.xcsrf # NoToken THEN r.xcsrf
    ELSE r.xxsrf

\* validateCsrf: the token of the request, headers first
csrfTokenOf(r) ==
    IF r.xcsrf # NoToken THEN r.xcsrf
    ELSE IF r.xxsrf # NoToken THEN r.xxsrf
    ELSE r.bcsrf

\* validateCsrf: the body of the 403 sent when the token is missing
csrfMissingBody(ctx) ==
    [message |-> "missing CSRF token",
     sessionId |-> ToString(ctx.sid),
     hasCsrfSecret |-> ToString(ctx.session.csrfSecret # "none"),
     receivedHeaders |-> "[]"]

\* a body that reports the secret the token was checked against
csrfInvalidBodyWithSecret(ctx, token) ==
    [message |-> "invalid CSRF token",
     sessionId |-> ToString(ctx.sid),
     tokenLength |-> ToString(tokenLength(token)),
     secretExists |-> ctx.session.csrfSecret]

\* validateCsrf: the body of the 403 sent when the token is invalid
csrfInvalidBody(ctx, token) ==
    [message |-> "invalid CSRF token",
     sessionId |-> ToString(ctx.sid),
     tokenLength |-> ToString(tokenLength(token)),
     secretExists |-> ToString(ctx.session.csrfSecret # "none")]

\* validateCsrf(req, res, next), path being req.path where it is mounted
validateCsrf(r, ctx, path) ==
    IF r.ep.method \in {"GET", "HEAD", "OPTIONS"} THEN ctx
    ELSE IF path \in skipPaths THEN ctx
    ELSE IF startsWithAuth(path) /\ path # <<"auth", "logout">> THEN ctx
    ELSE LET token == csrfTokenOf(r)
         IN  IF token = NoToken
             THEN Send(ctx, 403, "validateCsrf", csrfMissingBody(ctx))
             ELSE IF ~ reqValidateCsrf(ctx.session.csrfSecret, token)
             THEN Send(ctx, 403, "validateCsrf", csrfInvalidBody(ctx, token))
             ELSE [ctx EXCEPT !.accepted = token]

\* sanitizeInput: the body when there is one, and the query
sanitizeInput(ctx) ==
    [ctx EXCEPT !.body = IF ctx.parsed THEN sanitizeValue(@) ELSE @,
                !.query = sanitizeValue(@)]

\* a limiter of class c: the hit is counted, then compared with max
rateLimit(c, r, ctx) ==
    LET counted == [ctx EXCEPT !.hit[c] = @ + 1]
    IN  IF hits[c][r.client].n + counted.hit[c] > limit[c]
        THEN Send(counted, 429, IF c = "auth" THEN "authLimiter" ELSE "apiLimiter",
                  [message |-> "too many requests"])
        ELSE counted

\* the auth middleware: a bearer token that verifies is followed by
\* User.findById; r.jwt says that the token verifies and the user exists
auth(r, ctx) ==
    IF r.jwt THEN [ctx EXCEPT !.store = Append(@, "User")]
    ELSE Send(ctx, 401, "auth", [message |-> "unauthorized"])

\* the routes that take the id of an inquiry or of a product, in the URL
\* or, for POST /api/inquiries, as productId in the body
takesId(ep) ==
    \/ ep.url = <<"api", "inquiries", "id">>
    \/ ep.url = <<"api", "inquiries", "id", "respond">>
    \/ ep.url = <<"api", "products", "id">>
    \/ ep = [method |-> "POST", url |-> <<"api", "inquiries">>]

\* the collection the handler of such a route queries first
entityOf(ep) ==
    IF Mounted(<<"api", "inquiries">>, ep.url) /\ ep.method # "POST"
    THEN "Inquiry" ELSE "Product"

\* a route handler with the validation in front of it: a route that takes
\* an id answers 400 to a malformed one before its query; r.ok says that
\* the handler succeeds.  The queries of the other handlers are not
\* followed
handler(r, ctx) ==
    LET reached == IF takesId(r.ep) /\ r.idOk
                   THEN [ctx EXCEPT !.store = Append(@, entityOf(r.ep))]
                   ELSE ctx
    IN  [reached EXCEPT !.out =
            [NoResp EXCEPT !.status = IF r.ok /\ (takesId(r.ep) => r.idOk)
                                      THEN 200 ELSE 400,
                           !.by = "handler",
                           !.body = IF takesId(r.ep) /\ ~ r.idOk
                                    THEN [message |-> "invalid id"]
                                    ELSE [message |-> "none"],
                           !.seen = [parsed |-> ctx.parsed,
                                     body |-> ctx.body,
                                     query |-> ctx.query],
                           !.reused = ctx.accepted \in used]]

\* one middleware of the stack
step(m, r, ctx, path, k, salt) ==
    CASE m = "sanitizeInput" -> sanitizeInput(ctx)
      [] m = "csrfMiddleware" ->
            [ctx EXCEPT !.session = csrfMiddleware(@, k),
                        !.token = tokenize(csrfMiddleware(ctx.session, k).csrfSecret, salt)]
      [] m = "bodyParser" -> [ctx EXCEPT !.parsed = TRUE]
      [] m = "authLimiter" -> rateLimit("auth", r, ctx)
      [] m = "apiLimiter" -> rateLimit("api", r, ctx)
      [] m = "auth" -> auth(r, ctx)
      [] m = "validateCsrf" -> validateCsrf(r, ctx, path)
      [] m = "getCsrfToken" ->
            [ctx EXCEPT !.out = [NoResp EXCEPT !.status = 200,
                                               !.by = "getCsrfToken",
                                               !.token = ctx.token]]
      [] m = "handler" -> handler(r, ctx)
      [] m = "notFound" -> Send(ctx, 404, "notFound", [message |-> "not found"])
      [] OTHER -> ctx

\* the stack from its i-th middleware on, until one of them answers
RECURSIVE run(_, _, _, _, _, _, _)
run(stack, i, r, ctx, path, k, salt) ==
    IF i > Len(stack) \/ ctx.out.status # 0 THEN ctx
    ELSE run(stack, i + 1, r, step(stack[i], r, ctx, path, k, salt),
             path, k, salt)

\* the mount a URL falls under, if any
mountOf(url) == {m \in mounts : Mounted(m.path, url)}

\* the route of a request inside the router of mount m
routeOf(m, ep) ==
    {t \in routes : /\ t.mount = m.path
                    /\ t.method = ep.method
                    /\ t.path = reqPath(m.path, ep.url)}

\* the middleware a request goes through, in order
stackOf(ep) ==
    IF ep = [method |-> "GET", url |-> <<"api", "csrf-token">>]
    THEN appStack \o <<"getCsrfToken">>
    ELSE IF mountOf(ep.url) = {} THEN appStack \o <<"notFound">>
    ELSE LET m == CHOOSE x \in mountOf(ep.url) : TRUE
         IN  IF routeOf(m, ep) = {} THEN appStack \o m.stack \o <<"notFound">>
             ELSE appStack \o m.stack
                      \o (CHOOSE t \in routeOf(m, ep) : TRUE).stack

\* req.path as the mounted middleware of a request see it
pathOf(ep) ==
    IF mountOf(ep.url) = {} THEN ep.url
    ELSE reqPath((CHOOSE x \in mountOf(ep.url) : TRUE).path, ep.url)

-----------------------------------------------------------------------------
(* Serving a request *)

\* the least element of a set of numbers
least(S) == CHOOSE x \in S : \A y \in S : x <= y

\* the arrival of request r: express-session reads the session named by the
\* cookie, or generates one when the store has none under that id, and the
\* stack runs; k and salt are the random values of csrfMiddleware; open is
\* the number of requests that may be served at once
Serve(r, k, salt, open) ==
    LET known == r.cookie \in DOMAIN sessions
        free == (1..MaxSessions) \ (DOMAIN sessions \cup {q.sid : q \in reqs})
        slots == (1..open) \ {q.slot : q \in reqs}
        sid == IF known THEN r.cookie ELSE least(free)
        loaded == IF known THEN sessions[sid] ELSE newSession
    IN  /\ slots # {}
        /\ known \/ free # {}
        /\ \E ctx \in {run(stackOf(r.ep), 1, r,
                            [sid |-> sid, session |-> loaded, parsed |-> FALSE,
                             body |-> r.body, query |-> r.query,
                             token |-> NoToken, hit |-> [auth |-> 0, api |-> 0],
                             accepted |-> NoToken, store |-> << >>,
                             out |-> NoResp],
                            pathOf(r.ep), k, salt)} :
              /\ hits' = [c \in DOMAIN hits |->
                            [hits[c] EXCEPT ![r.client] =
                                [n |-> @.n + ctx.hit[c],
                                 seen |-> @.seen + IF ctx.hit[c] > 0 THEN 1 ELSE 0]]]
              /\ reqs' = reqs \cup
                    {[slot |-> least(slots), req |-> r, sid |-> sid,
                      session |-> ctx.session,
                      save |-> ctx.session # loaded,
                      out |-> ctx.out,
                      takeBack |-> IF ctx.out.status < 400 THEN ctx.hit.auth ELSE 0,
                      accepted |-> ctx.accepted,
                      hit |-> ctx.hit,
                      store |-> ctx.store]}
        /\ resp' = NoResp
        /\ UNCHANGED <<sessions, used, text, accounts, env>>
        /\ UNCHANGED <<products, inquiries, pending, last, now>>

\* a session middleware that never stores the session
FinishNoSave(q) ==
    /\ q \in reqs
    /\ sessions' = sessions
    /\ hits' = [hits EXCEPT !.auth[q.req.client].n =
                    IF @ >= q.takeBack THEN @ - q.takeBack ELSE 0]
    /\ used' = IF q.accepted # NoToken THEN used \cup {q.accepted} ELSE used
    /\ resp' = [q.out EXCEPT !.cookie = IF q.sid \in DOMAIN sessions'
                                        THEN q.sid ELSE 0]
    /\ reqs' = reqs \ {q}
    /\ UNCHANGED <<text, accounts, env>>
    /\ UNCHANGED <<products, inquiries, pending, last, now>>

\* the end of the response of q: the session is stored when the request
\* changed it, authLimiter (skipSuccessfulRequests) takes back the hits of
\* a response below 400, and the client receives the response
Finish(q) ==
    /\ q \in reqs
    /\ sessions' = IF q.save
                   THEN [s \in DOMAIN sessions \cup {q.sid} |->
                            IF s = q.sid THEN q.session ELSE sessions[s]]
                   ELSE sessions
    /\ hits' = [hits EXCEPT !.auth[q.req.client].n =
                    IF @ >= q.takeBack THEN @ - q.takeBack ELSE 0]
    /\ used' = IF q.accepted # NoToken THEN used \cup {q.accepted} ELSE used
    /\ resp' = [q.out EXCEPT !.cookie = IF q.sid \in DOMAIN sessions'
                                        THEN q.sid ELSE 0]
    /\ reqs' = reqs \ {q}
    /\ UNCHANGED <<text, accounts, env>>
    /\ UNCHANGED <<products, inquiries, pending, last, now>>

\* the window of limiter c ends for a client: its count starts again
WindowExpire(c, client) ==
    /\ hits[c][client] # [n |-> 0, seen |-> 0]
    /\ hits' = [hits EXCEPT ![c][client] = [n |-> 0, seen |-> 0]]
    /\ UNCHANGED <<sessions, used, reqs, resp, text, accounts, env>>
    /\ UNCHANGED <<products, inquiries, pending, last, now>>

\* one more pass of a sanitizer over the text
Sanitize ==
    /\ text.filter # "none"
    /\ text' = [text EXCEPT
                  !.value = IF text.filter = "sanitizeValue"
                            THEN sanitizeValue(@)
                            ELSE xss(@, 1, text.closesAtEnd),
                  !.clean = TRUE]
    /\ UNCHANGED <<sessions, used, hits, reqs, resp, accounts, env>>
    /\ UNCHANGED <<products, inquiries, pending, last, now>>

\* no text is under the sanitizers
NoText == [value |-> << >>, clean |-> FALSE, filter |-> "none",
           closesAtEnd |-> FALSE]

\* the store of a server that has served no request
InitRequests ==
    /\ sessions = [s \in {} |-> newSession]
    /\ used = {}
    /\ hits = [c \in {"auth", "api"} |->
                 [cl \in Clients |-> [n |-> 0, seen |-> 0]]]
    /\ reqs = {}
    /\ resp = NoResp

InitPipeline ==
    /\ InitRequests
    /\ text = NoText
    /\ accounts = << >>
    /\ env = [JWT_SECRET |-> "unset"]

-----------------------------------------------------------------------------
Init ==
    /\ \E st \in 1..MaxStock :
         products = [p \in {"p1", "p2"} |->
             IF p = "p1"
             THEN [seller |-> "s1", stock |-> st, isActive |-> TRUE, views |-> 0]
             ELSE [seller |-> "s1", stock |-> st, isActive |-> FALSE, views |-> 0]]
    /\ inquiries = << >>
    /\ pending = EmptyBag
    /\ last = [op |-> "none", res |-> "none"]
    /\ now = 0
    /\ InitPipeline

\* the catalogue for the product operations: p2 active or not, any stock level
InitProducts ==
    /\ \E st \in 0..MaxLevel, a \in BOOLEAN :
         products = [p \in {"p1", "p2"} |->
             [seller |-> "s1", stock |-> st,
              isActive |-> (p = "p1" \/ a), views |-> 0]]
    /\ inquiries = << >>
    /\ pending = EmptyBag
    /\ last = [op |-> "none", res |-> "none"]
    /\ now = 0
    /\ InitPipeline

\* handlers in flight that will insert an inquiry
Inserting == BagCardinality([c \in {d \in BagToSet(pending) : d.op = "create"}
                                |-> pending[c]])

\* room for one more handler in flight, and for one more inquiry up to cap
Room(cap, u, p, q, m) ==
    createOutcome(u, p, q, m) = "none" =>
        InFlight < MaxReq /\ Len(inquiries) + Inserting < cap

\* the create handler alone, over all its inputs
NextCreate ==
    \/ \E u \in Users, p \in ProductIds, q \in 0..(MaxStock + 1),
          m \in MessageKinds :
          Room(MaxInquiries, u, p, q, m) /\ CreateInquiry(u, p, q, m)
          /\ UNCHANGED pipeVars
    \/ \E c \in BagToSet(pending), t \in Times :
          CreatePersist(c, t) /\ UNCHANGED pipeVars

\* the create requests of the lifecycle specifications are those on the
\* active product with a well-formed body (SpecCreate covers the others)
LifecycleSteps(cap, payloads, times) ==
    \/ \E u \in Users, q \in 1..MaxStock :
          Room(cap, u, "p1", q, "ok") /\ CreateInquiry(u, "p1", q, "ok")
          /\ UNCHANGED pipeVars
    \/ \E c \in BagToSet(pending), t \in times :
          CreatePersist(c, t) /\ UNCHANGED pipeVars
    \/ \E u \in Users, i \in 1..(cap + 1), d \in payloads, t \in times :
          (respondOutcome(u, i, d) = "none" => InFlight < MaxReq)
          /\ Respond(u, i, d, t) /\ UNCHANGED pipeVars
    \/ \E i \in 1..cap, d \in payloads, t \in times :
          InFlight < MaxReq /\ respondToInquiry(i, d, t)
          /\ UNCHANGED pipeVars
    \/ \E i \in 1..cap, s \in Statuses :
          InFlight < MaxReq /\ updateStatus(i, s) /\ UNCHANGED pipeVars
    \/ \E c \in BagToSet(pending) : InquirySave(c) /\ UNCHANGED pipeVars

\* every operation on inquiries, the clock standing still
NextInquiry == LifecycleSteps(MaxTracked, Payloads, {now})

\* every operation on inquiries, under a moving clock
NextTimed == LifecycleSteps(MaxTimed, TimedPayloads, Times)

\* the response payloads of SpecAccess: one that passes validation and one
\* that does not
AccessPayloads == {d \in Payloads : d.message # "quoteB"}

\* the inquiries under respond and read requests of every caller, one
\* handler at a time; the respond requests name an inquiry that exists
NextAccess ==
    \/ \E u \in Users :
          /\ pending = EmptyBag
          /\ Len(inquiries) < MaxTracked
          /\ CreateInquiry(u, "p1", 1, "ok") /\ UNCHANGED pipeVars
    \/ \E c \in BagToSet(pending) :
          CreatePersist(c, now) /\ UNCHANGED pipeVars
    \/ \E u \in Callers, i \in DOMAIN inquiries, d \in AccessPayloads :
          pending = EmptyBag /\ Respond(u, i, d, now) /\ UNCHANGED pipeVars
    \/ \E i \in DOMAIN inquiries, s \in Statuses :
          pending = EmptyBag /\ updateStatus(i, s) /\ UNCHANGED pipeVars
    \/ \E c \in BagToSet(pending) : InquirySave(c) /\ UNCHANGED pipeVars
    \/ \E u \in Callers, i \in (1..(MaxTracked + 1)) \cup {MalformedId} :
          pending = EmptyBag /\ GetInquiry(u, i) /\ UNCHANGED pipeVars

\* the authenticated callers of POST /api/products, as auth has loaded them
ProductCallers ==
    {[id |-> "s1", role |-> "seller"], [id |-> "s2", role |-> "seller"],
     [id |-> "b1", role |-> "buyer"], [id |-> "x1", role |-> "admin"]}

\* the bodies of POST /api/products: seller is the value of a seller field
\* the body carries ("none" when it carries none), ok whether the body
\* passes createProductValidation
ProductBodies ==
    [seller : {"none", "s1", "s2", "b1"}, stock : 0..1, ok : BOOLEAN]

\* the products created so far get the ids p4, p5, ...
MaxCreated == 2

newProductIds == <<"p4", "p5", "p6", "p7">>

Created == {p \in DOMAIN products : \E n \in DOMAIN newProductIds : newProductIds[n] = p}

\* a document in which the fields of the body come last
newProductBodyLast(user, body) ==
    [seller |-> IF body.seller # "none" THEN body.seller ELSE user.id,
     stock |-> body.stock, isActive |-> TRUE, views |-> 0]

\* the document Product.create inserts: {...req.body, seller: req.user.id}
newProduct(user, body) ==
    [seller |-> user.id, stock |-> body.stock, isActive |-> TRUE, views |-> 0]

\* createProductValidation, then the role check of the handler
createProductOutcome(user, body) ==
    IF ~ body.ok THEN "ValidationError"
    ELSE IF user.role # "seller" THEN "Forbidden"
    ELSE "Created"

\* POST /api/products
CreateProduct(user, body) ==
    /\ LET id == newProductIds[Cardinality(Created) + 1]
       IN  products' =
               IF createProductOutcome(user, body) = "Created"
               THEN [p \in DOMAIN products \cup {id} |->
                        IF p = id THEN newProduct(user, body) ELSE products[p]]
               ELSE products
    /\ Return("createProduct", createProductOutcome(user, body))
    /\ UNCHANGED <<inquiries, pending, now>>

\* products are created, and read by GET /api/products/:id
NextProducts ==
    \/ \E user \in ProductCallers, body \in ProductBodies :
          /\ createProductOutcome(user, body) = "Created" =>
                Cardinality(Created) < MaxCreated
          /\ CreateProduct(user, body) /\ UNCHANGED pipeVars
    \/ \E p \in Created :
          pending = EmptyBag /\ products[p].views < 1
          /\ ViewProduct(p) /\ UNCHANGED pipeVars
    \/ \E c \in BagToSet(pending) : ViewSave(c) /\ UNCHANGED pipeVars

\* isActive of a product is set to false (no route does it: the flag is
\* changed on the store)
Deactivate(p) ==
    /\ p \in DOMAIN products
    /\ products[p].isActive
    /\ products' = [products EXCEPT ![p].isActive = FALSE]
    /\ Return("deactivate", "OK")
    /\ UNCHANGED <<inquiries, pending, now>>

\* inquiries on a product whose stock drops and which is deactivated, one
\* handler at a time
NextSurvive ==
    \/ \E u \in Users, q \in 1..MaxStock :
          /\ pending = EmptyBag
          /\ createOutcome(u, "p1", q, "ok") = "none" =>
                Len(inquiries) < MaxTracked
          /\ CreateInquiry(u, "p1", q, "ok") /\ UNCHANGED pipeVars
    \/ \E c \in BagToSet(pending) :
          CreatePersist(c, now) /\ UNCHANGED pipeVars
    \/ \E q \in 1..MaxStock :
          pending = EmptyBag /\ decreaseStock("p1", q) /\ UNCHANGED pipeVars
    \/ \E c \in BagToSet(pending) : ProductSave(c) /\ UNCHANGED pipeVars
    \/ pending = EmptyBag /\ Deactivate("p1") /\ UNCHANGED pipeVars
    \/ \E u \in Users, i \in DOMAIN inquiries, d \in AccessPayloads :
          pending = EmptyBag /\ Respond(u, i, d, now) /\ UNCHANGED pipeVars
    \/ \E i \in DOMAIN inquiries, s \in Statuses :
          pending = EmptyBag /\ updateStatus(i, s) /\ UNCHANGED pipeVars
    \/ \E c \in BagToSet(pending) : InquirySave(c) /\ UNCHANGED pipeVars

\* the stock methods
NextStock ==
    \/ \E p \in {"p1", "p2"}, q \in 1..MaxLevel :
          InFlight < MaxReq /\ decreaseStock(p, q) /\ UNCHANGED pipeVars
    \/ \E p \in {"p1", "p2"}, q \in 1..MaxLevel :
          InFlight < MaxReq /\ products[p].stock + q <= MaxLevel
          /\ increaseStock(p, q) /\ UNCHANGED pipeVars
    \/ \E c \in BagToSet(pending) : ProductSave(c) /\ UNCHANGED pipeVars

\* the product-detail requests
NextViews ==
    \/ \E p \in ProductIds :
          (p \in DOMAIN products =>
              InFlight < MaxReq /\ products[p].views < MaxViews)
          /\ ViewProduct(p) /\ UNCHANGED pipeVars
    \/ \E c \in BagToSet(pending) : ViewSave(c) /\ UNCHANGED pipeVars

-----------------------------------------------------------------------------
(* The requests of the pipeline specifications *)

\* the texts of at most n characters
Texts(n) == UNION {[1..m -> Chars] : m \in 0..n}

getToken == [method |-> "GET", url |-> <<"api", "csrf-token">>]

patchProfile == [method |-> "PATCH", url |-> <<"api", "users", "profile">>]

postInquiry == [method |-> "POST", url |-> <<"api", "inquiries">>]

postProduct == [method |-> "POST", url |-> <<"api", "products">>]

postLogin == [method |-> "POST", url |-> <<"auth", "login">>]

postLogout == [method |-> "POST", url |-> <<"auth", "logout">>]

\* a request of client c1 with a bearer token, no cookie, no anti-forgery
\* token and an empty body, whose handler succeeds
plainRequest ==
    [ep |-> getToken, client |-> "c1", cookie |-> 0, jwt |-> TRUE,
     xcsrf |-> NoToken, xxsrf |-> NoToken, bcsrf |-> NoToken,
     body |-> << >>, query |-> << >>, ok |-> TRUE, idOk |-> TRUE]

\* the limiter class of an endpoint
classOf(ep) == IF ep.url[1] = "auth" THEN "auth" ELSE "api"

\* the values tokens.secretSync() may give while r is served: it is called
\* for a session without a secret
secretsFor(r) ==
    IF r.cookie \in DOMAIN sessions /\ sessions[r.cookie].csrfSecret # "none"
    THEN {sessions[r.cookie].csrfSecret}
    ELSE Secrets

\* no limiter is near its limit for the client of r
Quiet(r) ==
    \A c \in DOMAIN hits :
        hits[c][r.client].n < MaxBurst /\ hits[c][r.client].seen < MaxBurst

\* anti-forgery validation: every endpoint, with tokens in the two headers
\* and in the body
CsrfTokens == {NoToken, Garbage} \cup {tokenize(k, 1) : k \in Secrets}

\* the X-XSRF-Token header is looked at when X-CSRF-Token is missing
CsrfRequests ==
    {r \in {[plainRequest EXCEPT !.ep = e, !.cookie = c, !.xcsrf = h,
                                 !.xxsrf = x, !.bcsrf = b] :
               e \in Endpoints, c \in 0..MaxSessions, h \in CsrfTokens,
               x \in {NoToken, tokenize("secretA", 1)}, b \in CsrfTokens} :
        r.xcsrf # NoToken => r.xxsrf = NoToken}

\* the requests are served one at a time; every session gets secretA
NextCsrf ==
    \/ \E r \in CsrfRequests : Quiet(r) /\ Serve(r, "secretA", 1, 1)
    \/ \E q \in reqs : Finish(q)
    \/ \E c \in {"auth", "api"} : WindowExpire(c, "c1")

\* tokens and sessions: tokens are fetched and presented in the header of a
\* profile update, each request in a window of apiLimiter of its own
TokenRequests ==
    {[plainRequest EXCEPT !.ep = e, !.cookie = c, !.xcsrf = h] :
        e \in {getToken, patchProfile}, c \in 0..MaxSessions,
        h \in TokenValues}

NextTokens ==
    \/ \E r \in TokenRequests : \E k \in secretsFor(r), salt \in Salts :
          /\ hits.api[r.client] = [n |-> 0, seen |-> 0]
          /\ r.ep = getToken => r.xcsrf = NoToken
          /\ r.ep # getToken => salt = 1
          /\ Serve(r, k, salt, 1)
    \/ \E q \in reqs : Finish(q)
    \/ WindowExpire("api", "c1")

\* a token is fetched, and the next request presents it, with the session
\* cookie the client holds, in the header of a profile update or a logout
IssueRequests ==
    {[plainRequest EXCEPT !.ep = getToken, !.cookie = c] :
        c \in 0..MaxSessions}

FollowUps ==
    {[plainRequest EXCEPT !.ep = e, !.cookie = resp.cookie,
                          !.xcsrf = resp.token] :
        e \in {patchProfile, postLogout}}

\* the client of r has no hit in any window
Fresh(r) ==
    \A c \in DOMAIN hits : hits[c][r.client] = [n |-> 0, seen |-> 0]

NextIssue ==
    \/ \E r \in IssueRequests : \E k \in secretsFor(r), salt \in Salts :
          Serve(r, k, salt, 1)
    \/ \E r \in FollowUps : \E k \in secretsFor(r) :
          resp.by = "getCsrfToken" /\ Fresh(r) /\ Serve(r, k, 1, 1)
    \/ \E q \in reqs : Finish(q)
    \/ \E c \in {"auth", "api"} : WindowExpire(c, "c1")

\* the session store under requests that overlap
SessionRequests ==
    {[plainRequest EXCEPT !.cookie = c] : c \in 0..MaxSessions}

NextSession ==
    \/ \E r \in SessionRequests : \E k \in Secrets :
          Serve(r, k, 1, MaxOpen)
    \/ \E q \in reqs : Finish(q)

\* the body and the query of a product creation
SanitizeRequests ==
    {[plainRequest EXCEPT !.ep = postProduct, !.cookie = 1, !.body = b,
                          !.query = y] :
        b \in Texts(MaxLen - 3) \cup {<<"<", "l", ">", "t">>}, y \in Texts(1)}

NextSanitize ==
    \/ \E r \in SanitizeRequests : Quiet(r) /\ Serve(r, "secretA", 1, 1)
    \/ \E q \in reqs : Finish(q)
    \/ WindowExpire("api", "c1")

\* the limiters: requests of the two classes by two clients
RateRequests ==
    {[plainRequest EXCEPT !.ep = e, !.client = cl, !.cookie = 1, !.jwt = j,
                          !.xcsrf = h, !.ok = o] :
        e \in {postInquiry, patchProfile, postLogin, postLogout},
        cl \in Clients, j \in BOOLEAN,
        h \in {NoToken, tokenize("secretA", 1)}, o \in BOOLEAN}

\* the hits one request of r's route adds to its limiter
weight(ep) == IF ep \in {postInquiry, postLogin} THEN 2 ELSE 1

\* the requests followed by SpecRate: a window is filled by one client with
\* requests of one class and one weight, up to one request past the limit;
\* the other client stays within MaxOther requests
Followed(r) ==
    LET c == classOf(r.ep)
        mine == hits[c][r.client]
    IN  /\ \A d \in DOMAIN hits : d # c => hits[d][r.client].n = 0 /\ hits[d][r.client].seen = 0
        /\ r.client = "c2" => mine.seen < MaxOther
        /\ mine.seen <= limit[c]
        /\ c = "api" => (r.jwt <=> r.ok) /\ r.xcsrf = NoToken
        /\ c = "api" /\ r.jwt => mine.n = weight(r.ep) * mine.seen \/ mine.n > limit[c]
        /\ c = "auth" => r.jwt

NextRate ==
    \/ \E r \in RateRequests :
          Followed(r) /\ Serve(r, "secretA", 1, 1)
    \/ \E q \in reqs : Finish(q)
    \/ \E c \in {"auth", "api"}, cl \in Clients : WindowExpire(c, cl)

\* requests that name an inquiry or a product, with and without a bearer
\* token, with a well-formed and with a malformed id
IdRequests ==
    {[plainRequest EXCEPT !.ep = e, !.cookie = c, !.jwt = j, !.idOk = i,
                          !.ok = o] :
        e \in {[method |-> "GET", url |-> <<"api", "inquiries", "id">>],
               [method |-> "PATCH", url |-> <<"api", "inquiries", "id", "respond">>],
               [method |-> "GET", url |-> <<"api", "products", "id">>],
               postInquiry},
        c \in 0..1, j \in BOOLEAN, i \in BOOLEAN, o \in BOOLEAN}

NextIds ==
    \/ \E r \in IdRequests : Quiet(r) /\ Serve(r, "secretA", 1, 1)
    \/ \E q \in reqs : Finish(q)
    \/ WindowExpire("api", "c1")

-----------------------------------------------------------------------------
(* routes/auth.js, routes/users.js and userSchema : the accounts *)

\* the names and the addresses registrations ask for; an address stands for
\* its form after normalizeEmail and lowercase
Usernames == {"u1", "u2"}

Emails == {"e1", "e2"}

Passwords == {"pw1", "pw2"}

Companies == {"co1", "co2"}

\* bcrypt.hash(password, 12) of the pre-save hook
hash(pw) == IF pw = "pw1" THEN "hash1" ELSE "hash2"

Hashes == {hash(pw) : pw \in Passwords}

\* the messages of errors thrown below the handlers: the driver's
\* duplicate-key error, a lost connection, bcrypt refusing an undefined hash
DuplicateKey == "E11000 duplicate key error"

ConnectionLost == "connection lost"

IllegalArguments == "Illegal arguments: string, undefined"

InternalMessages == {DuplicateKey, ConnectionLost, IllegalArguments}

\* the outcomes of one write on the store
Faults == {"none", ConnectionLost}

\* a schema whose password path is not select: false
selectedWithPassword(doc, plus) == doc

\* what a query hands out of a document: the password is select: false and
\* comes only with select('+password')
selected(doc, plus) ==
    [f \in (DOMAIN doc \ {"password"}) \cup plus |-> doc[f]]

\* User.findById(id)
findById(id) == selected(accounts[id], {})

\* the ids User.findOne({username}) and User.findOne({email}) match
byUsername(n) == {i \in DOMAIN accounts : accounts[i].username = n}

byEmail(e) == {i \in DOMAIN accounts : accounts[i].email = e}

\* populate(path, fields) of an inquiry's buyer or seller
populate(doc, fields) == [f \in fields \cup {"id"} |-> doc[f]]

\* the user record the register and login handlers write out
publicUser(u) ==
    [id |-> u.id, username |-> u.username, email |-> u.email,
     company |-> u.company, role |-> u.role]

\* res.status(status).json(body) of a handler of the accounts
Reply(status, by, body) ==
    resp' = [NoResp EXCEPT !.status = status, !.by = by, !.body = body]

accountFrame == UNCHANGED <<products, inquiries, last, now,
                            sessions, used, hits, reqs, text, env>>

\* the values JWT_SECRET is started with
JwtSettings == {"unset", "k1"}

\* the process is started with JWT_SECRET set to v, before any request
Configure(v) ==
    /\ accounts = << >>
    /\ pending = EmptyBag
    /\ resp = NoResp
    /\ env.JWT_SECRET = "unset"
    /\ v # "unset"
    /\ env' = [env EXCEPT !.JWT_SECRET = v]
    /\ UNCHANGED <<products, inquiries, pending, last, now,
                   sessions, used, hits, reqs, resp, text, accounts>>

\* process.env.JWT_SECRET || 'your_jwt_secret'
signingKey ==
    IF env.JWT_SECRET = "unset" THEN "your_jwt_secret" ELSE env.JWT_SECRET

\* the key auth hands to jwt.verify
verifyingKey == "your_jwt_secret"

\* jwt.sign({id}, key) and jwt.verify(token, key)
jwtSign(id, key) == [id |-> id, key |-> key]

jwtVerify(token, key) == token.key = key

\* POST /auth/register, registerValidation: the username validator reads
\* the store
RegisterUsername(n, e, pw) ==
    /\ BagCardinality(pending) < MaxReq
    /\ Await([Cont EXCEPT !.op = "registerEmail", !.user = n, !.email = e,
                          !.password = pw,
                          !.status = IF byUsername(n) = {} THEN "valid"
                                     ELSE "invalid"])
    /\ UNCHANGED <<accounts, resp>>
    /\ accountFrame

\* the email validator reads the store, then handleValidationErrors
RegisterEmail(c) ==
    /\ c.op = "registerEmail"
    /\ BagIn(c, pending)
    /\ IF c.status = "valid" /\ byEmail(c.email) = {}
       THEN /\ pending' = (pending (-) SetToBag({c}))
                            (+) SetToBag({[c EXCEPT !.op = "registerCreate"]})
            /\ UNCHANGED resp
       ELSE /\ pending' = pending (-) SetToBag({c})
            /\ Reply(400, "handleValidationErrors",
                     [message |-> "validation failed"])
    /\ UNCHANGED accounts
    /\ accountFrame

\* an insert into a collection without the unique indexes
insertNoIndex(c) ==
    [error |-> "none",
     accounts |-> Append(accounts,
         [id |-> Len(accounts) + 1, username |-> c.user,
          email |-> c.email, password |-> hash(c.password),
          company |-> "co1", role |-> "buyer"])]

\* the insert of User.create under the unique indexes of username and email
insert(c) ==
    IF byUsername(c.user) # {} \/ byEmail(c.email) # {}
    THEN [error |-> DuplicateKey, accounts |-> accounts]
    ELSE [error |-> "none",
          accounts |-> Append(accounts,
              [id |-> Len(accounts) + 1, username |-> c.user,
               email |-> c.email, password |-> hash(c.password),
               company |-> "co1", role |-> "buyer"])]

\* the status and the body of the register handler when User.create threw
\* error
registerCatch(error) == [status |-> 400, body |-> [message |-> error]]

\* the register handler: User.create, then 201 with the written user, or
\* the catch block
RegisterCreate(c, fault) ==
    /\ c.op = "registerCreate"
    /\ BagIn(c, pending)
    /\ pending' = pending (-) SetToBag({c})
    /\ LET done == IF fault = "none" THEN insert(c)
                   ELSE [error |-> fault, accounts |-> accounts]
       IN  /\ accounts' = done.accounts
           /\ IF done.error = "none"
              THEN Reply(201, "register",
                         [message |-> "none",
                          token |-> jwtSign(Len(accounts'), signingKey),
                          user |-> publicUser(accounts'[Len(accounts')])])
              ELSE Reply(registerCatch(done.error).status, "register",
                         registerCatch(done.error).body)
    /\ accountFrame

\* POST /auth/login
Login(e, pw) ==
    /\ IF byEmail(e) = {}
       THEN Reply(401, "login", [message |-> "wrong email or password"])
       ELSE LET user == selected(accounts[CHOOSE i \in byEmail(e) : TRUE],
                                 {"password"})
            IN  IF hash(pw) # user.password
                THEN Reply(401, "login",
                           [message |-> "wrong email or password"])
                ELSE Reply(200, "login",
                           [message |-> "none",
                            token |-> jwtSign(user.id, signingKey),
                            user |-> publicUser(user)])
    /\ UNCHANGED <<accounts, pending>>
    /\ accountFrame

\* GET /api/users/me, GET /api/users/profile and GET /api/test-auth of the
\* user the bearer token names
GetUser(route, id) ==
    /\ id \in DOMAIN accounts
    /\ Reply(200, route, [message |-> "none", user |-> findById(id)])
    /\ UNCHANGED <<accounts, pending>>
    /\ accountFrame

\* GET /api/test-auth with the bearer credential token: auth verifies it,
\* looks the user up and hands the request on
TestAuth(token) ==
    /\ IF ~ jwtVerify(token, verifyingKey)
       THEN Reply(401, "auth", [message |-> "invalid token"])
       ELSE IF token.id \notin DOMAIN accounts
       THEN Reply(401, "auth", [message |-> "no such user"])
       ELSE Reply(200, "test-auth",
                  [message |-> "none", user |-> findById(token.id)])
    /\ UNCHANGED <<accounts, pending>>
    /\ accountFrame

\* the last response was a register or a login that issued a credential
Issued == resp.by \in {"register", "login"} /\ resp.status \in {200, 201}

\* PATCH /api/users/profile: with both passwords in the body the handler
\* compares against the password of a document read without it
PatchProfile(id, company, change) ==
    /\ id \in DOMAIN accounts
    /\ IF change
       THEN /\ Reply(400, "patchProfile", [message |-> IllegalArguments])
            /\ UNCHANGED accounts
       ELSE /\ accounts' = [accounts EXCEPT ![id].company = company]
            /\ Reply(200, "patchProfile",
                     [message |-> "none",
                      user |-> selected(accounts'[id], {})])
    /\ UNCHANGED pending
    /\ accountFrame

\* the buyer or seller sub-record of an inquiry response
InquiryParty(id) ==
    /\ id \in DOMAIN accounts
    /\ Reply(200, "inquiry",
             [message |-> "none",
              user |-> populate(accounts[id],
                                {"username", "company", "email"})])
    /\ UNCHANGED <<accounts, pending>>
    /\ accountFrame

NextAccounts ==
    \/ \E v \in JwtSettings : Configure(v)
    \/ Issued /\ TestAuth(resp.body.token)
    \/ \E n \in Usernames, e \in Emails : RegisterUsername(n, e, "pw1")
    \/ \E c \in BagToSet(pending) : RegisterEmail(c)
    \/ \E c \in BagToSet(pending), fault \in Faults : RegisterCreate(c, fault)
    \/ \E e \in Emails, pw \in Passwords : Login(e, pw)
    \/ \E id \in 1..Cardinality(Usernames),
          route \in {"me", "profile", "test-auth"} : GetUser(route, id)
    \/ \E id \in 1..Cardinality(Usernames), company \in Companies,
          change \in BOOLEAN : PatchProfile(id, company, change)
    \/ \E id \in 1..Cardinality(Usernames) : InquiryParty(id)

\* the sanitizers, pass after pass
NextText == Sanitize

\* the texts given to sanitizeValue and to the xss filter of either build
InitText ==
    /\ products = [p \in {"p1", "p2"} |->
          [seller |-> "s1", stock |-> MaxStock, isActive |-> (p = "p1"),
           views |-> 0]]
    /\ inquiries = << >>
    /\ pending = EmptyBag
    /\ last = [op |-> "none", res |-> "none"]
    /\ now = 0
    /\ InitRequests
    /\ accounts = << >>
    /\ env = [JWT_SECRET |-> "unset"]
    /\ \E v \in Texts(MaxLen), f \in {"sanitizeValue", "xss"}, b \in BOOLEAN :
          /\ f = "sanitizeValue" => ~ b
          /\ text = [value |-> v, clean |-> FALSE, filter |-> f,
                     closesAtEnd |-> b]

Next ==
    \/ NextCreate \/ NextInquiry \/ NextTimed \/ NextStock \/ NextViews
    \/ NextAccess \/ NextIds \/ NextAccounts \/ NextSurvive \/ NextIssue
    \/ NextProducts
    \/ NextCsrf \/ NextTokens \/ NextSession \/ NextSanitize \/ NextRate
    \/ NextText

Spec == Init /\ [][Next]_vars

SpecCreate == Init /\ [][NextCreate]_vars

SpecInquiry == Init /\ [][NextInquiry]_vars

SpecTimed == Init /\ [][NextTimed]_vars

SpecStock == InitProducts /\ [][NextStock]_vars

SpecViews == InitProducts /\ [][NextViews]_vars

SpecAccess == Init /\ [][NextAccess]_vars

SpecCsrf == Init /\ [][NextCsrf]_vars

SpecTokens == Init /\ [][NextTokens]_vars

SpecSession == Init /\ [][NextSession]_vars

SpecSanitize == Init /\ [][NextSanitize]_vars

SpecRate == Init /\ [][NextRate]_vars

SpecIds == Init /\ [][NextIds]_vars

SpecAccounts == Init /\ [][NextAccounts]_vars

SpecSurvive == Init /\ [][NextSurvive]_vars

SpecIssue == Init /\ [][NextIssue]_vars

SpecProducts == Init /\ [][NextProducts]_vars

SpecText == InitText /\ [][NextText]_vars

-----------------------------------------------------------------------------
(* Properties *)

\* the inquiry ids a request may name: the inquiries and one id past them
InquiryIds == 1..(Len(inquiries) + 1)

\* one more handler is in flight after the step, none has returned
Awaits(op, i) ==
    /\ \E c \in BagToSet(pending') :
          c.op = op /\ c.id = i /\ pending' = pending (+) SetToBag({c})
    /\ last' = last

\* the step returns res to the caller of op and writes nothing, now or later
Fails(op, res) ==
    /\ last' = [op |-> op, res |-> res]
    /\ pending' = pending
    /\ inquiries' = inquiries
    /\ products' = products

\* the transition table of the lifecycle
TransitionTable ==
    [pending |-> {"responded", "cancelled"},
     responded |-> {"accepted", "rejected", "completed"},
     accepted |-> {"completed", "cancelled"},
     rejected |-> {"cancelled"},
     completed |-> {},
     cancelled |-> {}]

\* C1: updateStatus on a document of status s goes on to save the target
\* status exactly when the target is in the table's set for s, and the save
\* writes that target; every other call returns InvalidTransition and
\* writes nothing.
C1_UpdateStatusFollowsTable ==
    [][ /\ \A i \in DOMAIN inquiries, s \in Statuses :
             updateStatus(i, s) =>
                 IF s \in TransitionTable[inquiries[i].status]
                 THEN /\ Awaits("updateStatus", i)
                      /\ \A c \in BagToSet(pending') :
                            pending' = pending (+) SetToBag({c}) => c.status = s
                 ELSE Fails("updateStatus", "InvalidTransition")
        /\ \A c \in BagToSet(pending) :
             (c.op = "updateStatus" /\ InquirySave(c)) =>
                 /\ inquiries'[c.id].status = c.status
                 /\ last' = [op |-> "updateStatus", res |-> "OK"]
      ]_vars

\* an updateStatus call has been refused on a terminal inquiry that an
\* earlier updateStatus had completed
C1_Witness ==
    /\ Len(inquiries) >= 1
    /\ inquiries[1].status = "completed"
    /\ last = [op |-> "updateStatus", res |-> "InvalidTransition"]

C3_SecondRespondRejected ==
    [][ /\ \A u \in Users, i \in DOMAIN inquiries, d \in Payloads, t \in Times :
             (Respond(u, i, d, t) /\ inquiries[i].status # "pending") =>
                 /\ inquiries' = inquiries /\ pending' = pending
                 /\ (u = inquiries[i].seller /\ d.price >= 0 /\ d.price <= 100000000)
                       => /\ Fails("respond", "AlreadyResponded")
                          /\ HttpStatus(last'.res) = 400
        /\ \A i \in DOMAIN inquiries, d \in Payloads, t \in Times :
             (respondToInquiry(i, d, t) /\ inquiries[i].status # "pending") =>
                 Fails("respondToInquiry", "AlreadyResponded")
      ]_vars

\* a second respond has been refused on an inquiry that holds a response
C3_Witness ==
    /\ Len(inquiries) >= 1
    /\ inquiries[1].status = "responded"
    /\ inquiries[1].response # NoResponse
    /\ last = [op |-> "respond", res |-> "AlreadyResponded"]

\* C4: in every reachable state an inquiry whose status is responded has a
\* response sub-record with respondedAt set.
C4_RespondedHasResponse ==
    \A i \in DOMAIN inquiries :
        inquiries[i].status = "responded" =>
            /\ inquiries[i].response # NoResponse
            /\ inquiries[i].response.respondedAt >= 0

\* C5 as stated: create fails with InsufficientStock whenever quantity >
\* product.stock and with SelfInquiryForbidden whenever product.seller is the
\* caller, whatever the other fields, and persists nothing.
C5_FailsRegardlessOfOtherFields ==
    [][ \A u \in Users, p \in DOMAIN products, q \in 0..(MaxStock + 1),
           m \in MessageKinds :
            CreateInquiry(u, p, q, m) =>
                /\ q > products[p].stock => Fails("create", "InsufficientStock")
                /\ products[p].seller = u => Fails("create", "SelfInquiryForbidden")
      ]_vars

\* C5 amended: create with a body that passes field validation, on an
\* existing active product, fails with InsufficientStock whenever quantity >
\* product.stock, and with SelfInquiryForbidden whenever product.seller is
\* the caller and quantity <= product.stock; both persist nothing.
C5_FailsAfterValidation ==
    [][ \A u \in Users, p \in DOMAIN products, q \in 0..(MaxStock + 1),
           m \in MessageKinds :
            (CreateInquiry(u, p, q, m) /\ q >= 1 /\ m # "short"
                /\ products[p].isActive) =>
                /\ q > products[p].stock => Fails("create", "InsufficientStock")
                /\ (products[p].seller = u /\ q <= products[p].stock)
                      => Fails("create", "SelfInquiryForbidden")
      ]_vars

\* a create asking for more than the stock has been refused, nothing inserted
C5_Witness ==
    /\ last = [op |-> "create", res |-> "InsufficientStock"]
    /\ inquiries = << >>
    /\ pending = EmptyBag

\* C6: a successful create appends exactly one inquiry, of status pending,
\* and no step of create, respond or a status transition changes the stock
\* of any product.
C6_StockNotReserved ==
    [][ /\ \A p \in DOMAIN products :
             p \in DOMAIN products' /\ products'[p].stock = products[p].stock
        /\ \A c \in BagToSet(pending), t \in Times :
             (CreatePersist(c, t) /\ last'.res = "Created") =>
                 /\ Len(inquiries') = Len(inquiries) + 1
                 /\ SubSeq(inquiries', 1, Len(inquiries)) = inquiries
                 /\ inquiries'[Len(inquiries')].status = "pending"
                 /\ inquiries'[Len(inquiries')].quantity = c.qty
      ]_vars

\* a create has succeeded for the whole stock of the product, which is still
\* there
C6_Witness ==
    /\ last = [op |-> "create", res |-> "Created"]
    /\ Len(inquiries) = 1
    /\ inquiries[1].status = "pending"
    /\ products[inquiries[1].product].stock = inquiries[1].quantity

\* C7: every inquiry has the seller of its product, and no step changes the
\* seller, buyer or product of an existing inquiry.
C7_SellerSnapshot ==
    /\ [](\A i \in DOMAIN inquiries :
            inquiries[i].seller = products[inquiries[i].product].seller)
    /\ [][ \A i \in DOMAIN inquiries :
             /\ i \in DOMAIN inquiries'
             /\ inquiries'[i].seller = inquiries[i].seller
             /\ inquiries'[i].buyer = inquiries[i].buyer
             /\ inquiries'[i].product = inquiries[i].product
         ]_vars

\* an inquiry has been answered and accepted, its parties as at creation
C7_Witness ==
    /\ Len(inquiries) >= 1
    /\ inquiries[1].status = "accepted"
    /\ inquiries[1].response # NoResponse
    /\ inquiries[1].seller = "s1"
    /\ inquiries[1].buyer = "b1"

\* C8: every create in flight has seen sufficient stock for its own
\* quantity, and its insert goes through without looking at the stock or at
\* the other inquiries again.
C8_StockCheckNotAtomic ==
    /\ [](\A c \in BagToSet(pending) :
            c.op = "create" => c.qty <= products[c.id].stock)
    /\ [][ \A c \in BagToSet(pending), t \in Times :
             (CreatePersist(c, t) /\ c.msg = "ok") =>
                 /\ last' = [op |-> "create", res |-> "Created"]
                 /\ Len(inquiries') = Len(inquiries) + 1
                 /\ inquiries'[Len(inquiries')].quantity = c.qty
                 /\ inquiries'[Len(inquiries')].status = "pending"
         ]_vars

\* two creates that were in flight together have both succeeded: the pending
\* inquiries on p1 each fit the stock and together exceed it
C8_Witness ==
    /\ Len(inquiries) = 2
    /\ pending = EmptyBag
    /\ \A i \in DOMAIN inquiries :
          /\ inquiries[i].product = "p1"
          /\ inquiries[i].quantity <= products["p1"].stock
    /\ PendingQuantity(inquiries, "p1") > products["p1"].stock

\* C9: the persisted stock of every product is >= 0; decreaseStock on a
\* document whose stock is below the quantity returns an error and writes
\* nothing; increaseStock never awaits the write of a lower stock than it
\* read.
C9_StockNeverNegative ==
    /\ [](\A p \in DOMAIN products : products[p].stock >= 0)
    /\ [][ /\ \A p \in DOMAIN products, q \in 1..(MaxLevel + 1) :
                (decreaseStock(p, q) /\ products[p].stock < q) =>
                    Fails("decreaseStock", "StockError")
           /\ \A p \in DOMAIN products, q \in 1..(MaxLevel + 1) :
                increaseStock(p, q) =>
                    \A c \in BagToSet(pending') :
                        pending' = pending (+) SetToBag({c})
                            => c.n > products[p].stock
         ]_vars

\* a decreaseStock has been refused on a product that an earlier one had
\* emptied
C9_Witness ==
    /\ last = [op |-> "decreaseStock", res |-> "StockError"]
    /\ products["p1"].stock = 0
    /\ pending = EmptyBag

\* C10: the persisted views counter of every product never decreases.
C10_ViewsMonotonic ==
    [][ \A p \in DOMAIN products :
            products'[p].views >= products[p].views ]_vars

-----------------------------------------------------------------------------
(* Properties of the request pipeline *)

Mutating(method) == method \in {"POST", "PUT", "PATCH", "DELETE"}

\* the allow-list by URL: registration, login, health check, token
\* issuance, debug, and the authentication namespace other than logout
AllowListed(url) ==
    \/ url \in skipPaths
    \/ startsWithAuth(url) /\ url # <<"auth", "logout">>

\* the request has been answered 403 by the anti-forgery validation
RejectedByCsrf(q) == q.out.status = 403 /\ q.out.by = "validateCsrf"

\* the request carries no token, or one that its session does not verify
NoValidToken(q) == ~ reqValidateCsrf(q.session.csrfSecret, csrfTokenOf(q.req))

\* C11: every mutating request to a path off the allow-list that carries no
\* valid anti-forgery token is answered 403 by the validation, before its
\* route handler.
C11_MutatingNeedsToken ==
    \A q \in reqs :
        (Mutating(q.req.ep.method) /\ ~ AllowListed(q.req.ep.url)
            /\ NoValidToken(q)) => RejectedByCsrf(q)

\* C12: a POST to /auth/register or /auth/login, or to any /auth path other
\* than /auth/logout, that carries no token is not rejected by the
\* anti-forgery validation, while POST /auth/logout without a valid token
\* is answered 403.
C12_AuthPathsSkipValidation ==
    \A q \in reqs :
        /\ (startsWithAuth(q.req.ep.url) /\ q.req.ep.url # <<"auth", "logout">>
               /\ csrfTokenOf(q.req) = NoToken) => ~ RejectedByCsrf(q)
        /\ (q.req.ep = postLogout /\ NoValidToken(q)) => RejectedByCsrf(q)

\* C13: a token made under the secret of one session is refused, with 403,
\* on a mutating request of a session that holds a different secret.
C13_TokenBoundToSession ==
    \A q \in reqs : \A k \in Secrets, x \in Salts :
        (q.req.ep = patchProfile /\ q.req.xcsrf = tokenize(k, x)
            /\ q.session.csrfSecret # k) => RejectedByCsrf(q)

\* a token that its own session had accepted is presented in the other
\* session, whose secret differs, and is refused
C13_Witness ==
    \E q \in reqs :
        /\ DOMAIN sessions = {1, 2}
        /\ sessions[1].csrfSecret # sessions[2].csrfSecret
        /\ q.sid = 2
        /\ q.req.xcsrf \in used
        /\ verify(sessions[1].csrfSecret, q.req.xcsrf)
        /\ RejectedByCsrf(q)

\* C14: the stored secret of a session never changes: a request writes the
\* session only when the store held no secret for it, and a request of a
\* stored session works on the secret the store holds, also while another
\* request of the same session is being served.
C14_SecretWrittenOnce ==
    [][ /\ \A s \in DOMAIN sessions :
              s \in DOMAIN sessions' /\ sessions'[s] = sessions[s]
        /\ \A q \in reqs' :
              IF q.save THEN q.sid \notin DOMAIN sessions'
              ELSE q.session = sessions'[q.sid]
      ]_vars

\* two requests of one stored session are being served at once
C14_Witness ==
    \E q1, q2 \in reqs :
        /\ q1.slot # q2.slot
        /\ q1.sid = q2.sid
        /\ q1.sid \in DOMAIN sessions
        /\ q1.session = sessions[q1.sid]

\* C15: a token made under the secret of the session passes the validation
\* of every mutating request of that session, whatever tokens were accepted
\* before.
C15_TokenReusable ==
    \A q \in reqs :
        (q.req.ep = patchProfile /\ verify(q.session.csrfSecret, q.req.xcsrf))
            => q.accepted = q.req.xcsrf /\ q.out.by = "handler"

\* a token is accepted again after a second token of the same session was
\* accepted
C15_Witness ==
    /\ resp.by = "handler"
    /\ resp.reused
    /\ \E t1, t2 \in used : t1 # t2 /\ t1.mac[2] = t2.mac[2]

\* the requests that validateCsrf validates
Validated(ep) ==
    /\ Mutating(ep.method)
    /\ \E i \in DOMAIN stackOf(ep) : stackOf(ep)[i] = "validateCsrf"
    /\ pathOf(ep) \notin skipPaths
    /\ ~ (startsWithAuth(pathOf(ep)) /\ pathOf(ep) # <<"auth", "logout">>)

\* C16: with a token in the X-CSRF-Token header and one in the body, the
\* header token is the one validated: invalid header and valid body give
\* 403, valid header and invalid body pass.
C16_HeaderFirst ==
    \A q \in reqs :
        (Validated(q.req.ep) /\ q.req.jwt /\ q.req.xcsrf # NoToken
            /\ q.req.bcsrf # NoToken) =>
            IF reqValidateCsrf(q.session.csrfSecret, q.req.xcsrf)
            THEN q.out.by = "handler"
            ELSE RejectedByCsrf(q)

\* an invalid header token is refused although the body token is valid
C16_Witness ==
    \E q \in reqs :
        /\ q.req.xcsrf = Garbage
        /\ reqValidateCsrf(q.session.csrfSecret, q.req.bcsrf)
        /\ RejectedByCsrf(q)

\* C17: no field of the body of a 403 sent by the anti-forgery validation
\* holds the secret of the session.
C17_NoSecretIn403 ==
    \A q \in reqs :
        RejectedByCsrf(q) =>
            \A f \in DOMAIN q.out.body :
                q.out.body[f] \notin Secrets
                /\ q.out.body[f] # q.session.csrfSecret

\* the 403 for an invalid token, with its debug fields, has been sent
C17_Witness ==
    /\ resp.status = 403
    /\ resp.by = "validateCsrf"
    /\ "tokenLength" \in DOMAIN resp.body
    /\ \A f \in DOMAIN resp.body : resp.body[f] \notin Secrets

\* C18: what a route handler reads in the body and in the query is the
\* text of the request after the HTML-stripping filter.
C18_HandlerReadsSanitized ==
    \A q \in reqs :
        q.out.by = "handler" =>
            /\ q.out.seen.body = sanitizeValue(q.req.body)
            /\ q.out.seen.query = sanitizeValue(q.req.query)

\* C19: a pass of a sanitizer over a text that a pass has produced leaves
\* the text as it is.
C19_SanitizeIdempotent ==
    [][ text.clean => text'.value = text.value ]_vars

\* a text with a character reference has been through sanitizeValue
C19_Witness ==
    /\ text.clean
    /\ text.filter = "sanitizeValue"
    /\ text.value = <<"&", "l", "t", ";">>

\* the request was counted by the limiter of its class
Counted(q) == q.out.by # "auth"

\* C20: of the requests of a client that a limiter counts in one window,
\* the first limit ones are let through and request limit + 1 is answered
\* 429.
C20_LimitPerWindow ==
    \A q \in reqs :
        LET c == classOf(q.req.ep)
            number == hits[c][q.req.client].seen
        IN  Counted(q) =>
                /\ number <= limit[c] => q.out.status # 429
                /\ number = limit[c] + 1 => q.out.status = 429

\* the resource routes of the API
ResourceRoute(url) ==
    \E p \in {<<"api", "products">>, <<"api", "users">>,
              <<"api", "inquiries">>} : Mounted(p, url)

\* C21: every request to a resource route of the API is counted by the api
\* limiter, whatever its outcome, a request answered 401 included.
C21_CountedBeforeAuth ==
    \A q \in reqs : ResourceRoute(q.req.ep.url) => q.hit.api >= 1

\* C22: a client whose requests in the window of authLimiter, successful
\* ones included, number no more than the limit has made no more failing
\* requests than the limit, so that none of its failing register or login
\* requests is answered 429.
C22_FullQuotaOfFailures ==
    \A q \in reqs :
        (q.req.ep = postLogin /\ ~ q.req.ok
            /\ hits.auth[q.req.client].seen <= authMax)
            => q.out.status # 429

\* C29: create, on a body that passes field validation, answers
\* ProductNotFound (404) for a missing or inactive product even when the
\* quantity exceeds the stock or the caller is the seller, and
\* InsufficientStock when the quantity exceeds the stock of an active
\* product whose seller is the caller; nothing is persisted.
C29_CheckOrder ==
    [][ \A u \in Users, p \in ProductIds, q \in 1..(MaxStock + 1) :
            CreateInquiry(u, p, q, "ok") =>
                /\ (p \notin DOMAIN products \/ ~ products[p].isActive) =>
                      /\ Fails("create", "ProductNotFound")
                      /\ HttpStatus(last'.res) = 404
                /\ (p \in DOMAIN products /\ products[p].isActive
                       /\ q > products[p].stock /\ products[p].seller = u) =>
                      Fails("create", "InsufficientStock")
      ]_vars

\* a create on the inactive product has been answered ProductNotFound
C29_Witness ==
    /\ last = [op |-> "create", res |-> "ProductNotFound"]
    /\ ~ products["p2"].isActive
    /\ products["p2"].stock < MaxStock + 1
    /\ inquiries = << >>

\* C30: once the status of an inquiry is completed or cancelled, no step of
\* a respond or of a status transition changes its status or its response.
C30_TerminalAbsorbing ==
    [][ \A i \in DOMAIN inquiries :
            inquiries[i].status \in {"completed", "cancelled"} =>
                /\ inquiries'[i].status = inquiries[i].status
                /\ inquiries'[i].response = inquiries[i].response
      ]_vars

\* C23: a respond request on an existing inquiry by a caller who is not its
\* seller, its buyer included, writes nothing, neither now nor later; with
\* a body that passes validation it is answered 404.
C23_OnlySellerResponds ==
    [][ \A u \in Callers, i \in DOMAIN inquiries, d \in AccessPayloads :
            (Respond(u, i, d, now) /\ u # inquiries[i].seller) =>
                /\ inquiries' = inquiries
                /\ pending' = pending
                /\ respondInquiryValidation(d) =>
                      /\ Fails("respond", "InquiryNotFound")
                      /\ HttpStatus(last'.res) = 404
      ]_vars

\* a respond by a caller other than the seller has been answered 404 on an
\* inquiry that keeps the response its seller gave
C23_Witness ==
    /\ Len(inquiries) >= 1
    /\ last = [op |-> "respond", res |-> "InquiryNotFound"]
    /\ inquiries[1].status = "responded"
    /\ inquiries[1].response # NoResponse
    /\ pending = EmptyBag

\* C24: a read of an inquiry by a well-formed id is answered 200 exactly
\* when the inquiry exists and the caller is its buyer or its seller, 403
\* for every other caller of an existing inquiry and 404 when there is no
\* such inquiry; the read changes no inquiry.
C24_ReadByParties ==
    [][ \A u \in Callers, i \in 1..(MaxTracked + 1) :
            GetInquiry(u, i) =>
                /\ inquiries' = inquiries /\ pending' = pending
                /\ last'.op = "get"
                /\ HttpStatus(last'.res) =
                      IF i \notin DOMAIN inquiries THEN 404
                      ELSE IF u \in {inquiries[i].buyer, inquiries[i].seller}
                      THEN 200
                      ELSE 403
      ]_vars

\* a caller who is neither buyer nor seller has been refused the read
C24_Witness ==
    /\ Len(inquiries) >= 1
    /\ last = [op |-> "get", res |-> "Forbidden"]

\* C25: an authenticated request whose inquiry or product id is malformed
\* is answered 400 and no entity store has been queried for it.
C25_BadIdBeforeStore ==
    \A q \in reqs :
        (takesId(q.req.ep) /\ q.req.jwt /\ ~ q.req.idOk) =>
            q.out.status = 400 /\ q.store = << >>

\* the registration in flight c asks for a username or an email that is
\* taken by now
Taken(c) == byUsername(c.user) # {} \/ byEmail(c.email) # {}

\* C27: no two users share a username or an email, and a registration that
\* reaches the insert after its username or email was taken is answered 400
\* and creates no user
C27_UniqueAccounts ==
    [][ /\ \A i, j \in DOMAIN accounts' :
              i # j => /\ accounts'[i].username # accounts'[j].username
                       /\ accounts'[i].email # accounts'[j].email
        /\ \A c \in BagToSet(pending) :
              (RegisterCreate(c, "none") /\ Taken(c)) =>
                  accounts' = accounts /\ resp'.status = 400 ]_vars

\* two registrations passed the validators, one was written and the other
\* was refused by the index
C27_Witness ==
    /\ Len(accounts) >= 1
    /\ resp.by = "register"
    /\ resp.status = 400
    /\ resp.body.message = DuplicateKey

\* C26: a registration whose write fails unexpectedly is answered 500 with
\* a message that is not the error's own
C26_FailureIs500 ==
    [][ \A c \in BagToSet(pending) :
            RegisterCreate(c, ConnectionLost) =>
                /\ resp'.status = 500
                /\ resp'.body.message \notin InternalMessages ]_vars

\* C28: no response carries a password hash, under the name password or
\* under any other field of the user record it holds
C28_NoPasswordInResponse ==
    /\ resp.body.message \notin Hashes
    /\ "user" \in DOMAIN resp.body =>
          /\ "password" \notin DOMAIN resp.body.user
          /\ \A f \in DOMAIN resp.body.user \ {"id"} :
                resp.body.user[f] \notin Hashes

\* the profile was read and written and auth's user was echoed, each for a
\* stored user with a hashed password
C28_Witness ==
    /\ resp.status = 200
    /\ resp.by \in {"me", "profile", "test-auth", "patchProfile", "login",
                    "inquiry"}
    /\ accounts[resp.body.user.id].password \in Hashes

\* the product of inquiry i is inactive by now, or has less stock than the
\* inquiry asks for
ProductChanged(i) ==
    \/ ~ products[inquiries[i].product].isActive
    \/ products[inquiries[i].product].stock < inquiries[i].quantity

\* C31: an inquiry survives the deactivation of its product and the drop of
\* its stock: no step removes or replaces it, a respond of its seller with a
\* valid body is taken up while it is pending, an allowed transition is
\* taken up, and the save of either succeeds
C31_SurvivesProductChanges ==
    [][ /\ \A i \in DOMAIN inquiries :
              /\ i \in DOMAIN inquiries'
              /\ inquiries'[i].product = inquiries[i].product
              /\ inquiries'[i].quantity = inquiries[i].quantity
        /\ \A i \in DOMAIN inquiries, d \in AccessPayloads :
              (ProductChanged(i) /\ inquiries[i].status = "pending"
                 /\ respondInquiryValidation(d)
                 /\ Respond(inquiries[i].seller, i, d, now)) =>
                  Awaits("respond", i)
        /\ \A i \in DOMAIN inquiries, s \in Statuses :
              (ProductChanged(i) /\ s \in TransitionTable[inquiries[i].status]
                 /\ updateStatus(i, s)) =>
                  Awaits("updateStatus", i)
        /\ \A c \in BagToSet(pending) :
              (InquirySave(c) /\ ProductChanged(c.id)) =>
                  /\ last'.res = "OK"
                  /\ inquiries'[c.id].status = c.status ]_vars

\* the seller's respond was saved after the product was deactivated and its
\* stock had dropped below the quantity of the inquiry
C31_Witness ==
    /\ last = [op |-> "respond", res |-> "OK"]
    /\ \E i \in DOMAIN inquiries :
          /\ inquiries[i].status = "responded"
          /\ ~ products[inquiries[i].product].isActive
          /\ products[inquiries[i].product].stock < inquiries[i].quantity

\* C32: the token GET /api/csrf-token returns verifies under the secret the
\* store holds for the session of the response, also when the request made
\* the session, and a mutating request that presents it next with the
\* cookie of that session passes validateCsrf
C32_IssuedTokenPasses ==
    [][ /\ \A q \in reqs :
              (q.req.ep = getToken /\ Finish(q)) =>
                  /\ resp'.cookie \in DOMAIN sessions'
                  /\ verify(sessions'[resp'.cookie].csrfSecret, resp'.token)
        /\ \A r \in FollowUps :
              (resp.by = "getCsrfToken" /\ \E k \in Secrets : Serve(r, k, 1, 1)) =>
                  \E q \in reqs' :
                      /\ q.req = r
                      /\ q.accepted = resp.token
                      /\ q.out.by # "validateCsrf" ]_vars

\* the token of the second session, fetched by the request that made the
\* session, is accepted on a profile update of that session
C32_Witness ==
    \E q \in reqs :
        /\ DOMAIN sessions = {1, 2}
        /\ sessions[1].csrfSecret # sessions[2].csrfSecret
        /\ used = {}
        /\ q.sid = 2
        /\ q.req.ep = patchProfile
        /\ q.accepted = q.req.xcsrf
        /\ q.out.by = "handler"

\* C33: for every stored inquiry canRespond holds exactly in status pending
\* and isCompleted exactly in accepted, rejected, completed and cancelled;
\* the two never hold together, and neither holds exactly in responded
C33_VirtualsFollowStatus ==
    \A i \in DOMAIN inquiries :
        LET doc == inquiries[i]
        IN  /\ canRespond(doc) <=> doc.status = "pending"
            /\ isCompleted(doc) <=>
                  doc.status \in {"accepted", "rejected", "completed", "cancelled"}
            /\ ~ (canRespond(doc) /\ isCompleted(doc))
            /\ (~ canRespond(doc) /\ ~ isCompleted(doc)) <=>
                  doc.status = "responded"

\* an accepted inquiry, completed by the virtual and no longer open to a
\* respond
C33_Witness ==
    \E i \in DOMAIN inquiries :
        /\ inquiries[i].status = "accepted"
        /\ isCompleted(inquiries[i])
        /\ ~ canRespond(inquiries[i])

\* C34: a respond succeeds at most once per inquiry: the save of a respond
\* on an inquiry that has left pending does not return OK, and a response
\* once written is never replaced
C34_RespondAtMostOnce ==
    [][ /\ \A c \in BagToSet(pending) :
              (c.op = "respond" /\ InquirySave(c)
                 /\ inquiries[c.id].status # "pending") => last'.res # "OK"
        /\ \A i \in DOMAIN inquiries :
              inquiries[i].response # NoResponse =>
                  inquiries'[i].response = inquiries[i].response ]_vars

\* C35: no inquiry comes back to a status it has left, so the statuses it
\* has had are distinct and it changes status at most 3 times
C35_NeverBackToLeftStatus ==
    \A i \in DOMAIN inquiries :
        LET h == inquiries[i].history
        IN  /\ \A a, b \in DOMAIN h : a # b => h[a] # h[b]
            /\ Len(h) <= 4

Terminal == {"completed", "cancelled"}

\* a terminal status is reached from s by at most n transitions of the table
\* of updateStatus
RECURSIVE CanEnd(_, _)
CanEnd(s, n) ==
    \/ s \in Terminal
    \/ n > 0 /\ \E t \in validTransitions[s] : CanEnd(t, n - 1)

\* C36: every stored inquiry in a status that is not terminal has a
\* transition the table allows, and transitions of the table lead from its
\* status to a terminal one
C36_NeverStuck ==
    \A i \in DOMAIN inquiries :
        inquiries[i].status \notin Terminal =>
            /\ validTransitions[inquiries[i].status] # {}
            /\ CanEnd(inquiries[i].status, Cardinality(Statuses))

\* an inquiry went through rejected, whose one way on is cancelled, and
\* ended there
C36_Witness ==
    \E i \in DOMAIN inquiries :
        inquiries[i].history = <<"pending", "responded", "rejected", "cancelled">>

\* C37: the buyer of every stored inquiry differs from its seller, the
\* create handler goes on to the insert only for a caller who is not the
\* seller it read, and no step changes the buyer or the seller of a stored
\* inquiry
C37_BuyerIsNotSeller ==
    /\ [](/\ \A i \in DOMAIN inquiries :
                inquiries[i].buyer # inquiries[i].seller
          /\ \A c \in BagToSet(pending) : c.op = "create" => c.user # c.seller)
    /\ [][ \A i \in DOMAIN inquiries :
              /\ inquiries'[i].buyer = inquiries[i].buyer
              /\ inquiries'[i].seller = inquiries[i].seller ]_vars

\* the seller's own create was refused after the buyer's inquiry had been
\* answered
C37_Witness ==
    /\ last = [op |-> "create", res |-> "SelfInquiryForbidden"]
    /\ \E i \in DOMAIN inquiries :
          /\ inquiries[i].status = "responded"
          /\ inquiries[i].buyer = "b1"
          /\ inquiries[i].seller = "s1"

\* C38: the request that presents the credential a register or a login has
\* just returned passes auth, whatever JWT_SECRET is set to
C38_IssuedCredentialAccepted ==
    [][ (Issued /\ TestAuth(resp.body.token)) => resp'.status = 200 ]_vars

\* C39: POST /api/products with a valid body stores one new product, whose
\* seller is the caller whatever seller the body names, when the caller has
\* role seller, and answers 403 and stores nothing for every other role;
\* every product created is owned by a caller of role seller
C39_ProductOwnedByCreator ==
    [][ /\ \A user \in ProductCallers, body \in ProductBodies :
              (body.ok /\ CreateProduct(user, body)) =>
                  IF user.role = "seller"
                  THEN /\ last'.res = "Created"
                       /\ \E p \in DOMAIN products' \ DOMAIN products :
                             /\ DOMAIN products' = DOMAIN products \cup {p}
                             /\ products'[p].seller = user.id
                  ELSE /\ HttpStatus(last'.res) = 403
                       /\ products' = products
        /\ \A p \in Created' :
              \E user \in ProductCallers :
                  user.role = "seller" /\ products'[p].seller = user.id
        /\ \A p \in Created : products'[p].seller = products[p].seller ]_vars

\* two sellers have created a product each, and a caller who is no seller
\* was refused
C39_Witness ==
    /\ last = [op |-> "createProduct", res |-> "Forbidden"]
    /\ \E p, q \in Created :
          products[p].seller = "s1" /\ products[q].seller = "s2"

====
